---- MODULE Spec2Model ----
(***************************************************************************)
(* Model of the local-ci test Manager (src/src/test.rs): the in-flight    *)
(* map of cancellation tokens, the supervisor tasks spawned by            *)
(* set_revisions, the job counter behind settled(), the resource pools,   *)
(* the result database and the notification stream.                       *)
(*                                                                         *)
(* Granularity: one action per stretch of code between two suspension     *)
(* points of a task (tokio tasks are cooperatively scheduled), plus one   *)
(* action per event of the environment (a child process ending).          *)
(*                                                                         *)
(* crate::resource (Pools) and crate::result (Database) are not part of   *)
(* the sources at hand; they are modelled from their contract in spec.md  *)
(* (sections 4.1 and 4.2).  The database is taken to be reliable: reads   *)
(* and writes succeed, except in SpecOutput, where create_output may fail. *)
(***************************************************************************)
EXTENDS Naturals, Integers, Sequences, FiniteSets, TLC

\* ---------------------------------------------------------------- bounds
\* Largest number of jobs (supervisor tasks) spawned in one behaviour.
MaxJobs == 3
\* Largest number of set_revisions calls made by the caller.
MaxCalls == 3
\* Number of notifications the broadcast channel retains (4096 in
\* ManagerBuilder::build, scaled down).
ChannelCapacity == 2
\* Largest number of notifications sent while subscribers are watched.
MaxSent == 4
\* Largest number of file-system events the watcher reports.
MaxEvents == 4
\* Largest length of an output of git rev-list.
MaxLen == 4

\* ------------------------------------------------------- the environment
Commits == {"c1", "c2"}

\* Worktree::commit_tree: both commits carry the same tree (as the commits
\* orig_hash and same_tree of tests::should_cache_results).
commit_tree(c) == "treeA"

\* What the test command does is a function of the commit under test (the
\* test script of tests::should_handle_many reads its exit code from the
\* commit message): the exit code of the child run for each commit.
ExitCodeOf == [c \in Commits |-> IF c = "c1" THEN 0 ELSE 1]

SIGINT == 2
SIGKILL == 9
SIGTERM == 15

\* ResourceKey: the worktrees and two kinds of user tokens.
Keys == {"Worktree", "tok", "other"}

\* The ResourceKey::UserToken keys.
TokenKeys == Keys \ {"Worktree"}

NoNeeds == [k \in Keys |-> 0]
NoRes == [k \in Keys |-> <<>>]

\* The test definitions handed to Manager::builder, one list per
\* configuration; a behaviour runs under one configuration, chosen in Init.
TestConfigs ==
  << \* 1: one by-commit test that owns a worktree
     << [name |-> "t_commit", config_hash |-> 0, cache_policy |-> "ByCommit",
         needs_resources |-> [NoNeeds EXCEPT !["Worktree"] = 1]] >>,
     \* 2: one by-tree test that owns a worktree
     << [name |-> "t_tree", config_hash |-> 0, cache_policy |-> "ByTree",
         needs_resources |-> [NoNeeds EXCEPT !["Worktree"] = 1]] >>,
     \* 3: a test without caching that needs no resource, next to a
     \*    by-commit test that owns a worktree
     << [name |-> "t_none", config_hash |-> 0, cache_policy |-> "NoCaching",
         needs_resources |-> NoNeeds],
        [name |-> "t_commit", config_hash |-> 0, cache_policy |-> "ByCommit",
         needs_resources |-> [NoNeeds EXCEPT !["Worktree"] = 1]] >>,
     \* 4: the by-commit test of configuration 1
     << [name |-> "t_commit", config_hash |-> 0, cache_policy |-> "ByCommit",
         needs_resources |-> [NoNeeds EXCEPT !["Worktree"] = 1]] >>,
     \* 5: the same test after its configuration has changed
     << [name |-> "t_commit", config_hash |-> 1, cache_policy |-> "ByCommit",
         needs_resources |-> [NoNeeds EXCEPT !["Worktree"] = 1]] >>,
     \* 6: a test that needs a worktree and two tokens of one kind
     << [name |-> "t_commit", config_hash |-> 0, cache_policy |-> "ByCommit",
         needs_resources |-> [NoNeeds EXCEPT !["Worktree"] = 1, !["tok"] = 2]] >>,
     \* 7: a by-commit test that needs no resource, next to a by-commit
     \*    test that owns a worktree
     << [name |-> "t_origin", config_hash |-> 0, cache_policy |-> "ByCommit",
         needs_resources |-> NoNeeds],
        [name |-> "t_commit", config_hash |-> 0, cache_policy |-> "ByCommit",
         needs_resources |-> [NoNeeds EXCEPT !["Worktree"] = 1]] >>,
     \* 8: a small request (one token, no worktree) next to a large one (a
     \*    worktree and both tokens)
     << [name |-> "t_origin", config_hash |-> 0, cache_policy |-> "ByCommit",
         needs_resources |-> [NoNeeds EXCEPT !["tok"] = 1]],
        [name |-> "t_commit", config_hash |-> 0, cache_policy |-> "ByCommit",
         needs_resources |-> [NoNeeds EXCEPT !["Worktree"] = 1, !["tok"] = 2]] >>
  >>

\* The configurations of the specification Spec.
MainConfigs == {1, 2, 3}

\* The configurations a manager is built with, one after the other, on one
\* and the same database.
RestartConfigs == {4, 5}

\* The configurations with user tokens.
TokenConfigs == {6}

\* The configurations that mix tests with and without a worktree on a
\* database that holds results of an earlier session.
MixedConfigs == {7}

\* The configurations in which requests of different sizes compete for the
\* same tokens.
SizeConfigs == {8}

\* The resources handed to Pools::new, per configuration: a single worktree
\* (ManagerBuilder::num_worktrees defaults to 1) and no user token, unless
\* said otherwise.
PoolConfigs ==
  << [Worktree |-> <<"w1">>, tok |-> <<>>, other |-> <<>>],
     [Worktree |-> <<"w1">>, tok |-> <<>>, other |-> <<>>],
     [Worktree |-> <<"w1">>, tok |-> <<>>, other |-> <<>>],
     [Worktree |-> <<"w1">>, tok |-> <<>>, other |-> <<>>],
     [Worktree |-> <<"w1">>, tok |-> <<>>, other |-> <<>>],
     \* two worktrees, three tokens of the kind the test claims and one
     \* token of a kind it does not claim
     [Worktree |-> <<"w1", "w2">>, tok |-> <<"k1", "k2", "k3">>,
      other |-> <<"o1">>],
     [Worktree |-> <<"w1">>, tok |-> <<>>, other |-> <<>>],
     \* one worktree and two tokens
     [Worktree |-> <<"w1">>, tok |-> <<"k1", "k2">>, other |-> <<>>] >>

\* The commits the caller passes to set_revisions, per configuration.
RevConfigs ==
  << {"c1", "c2"}, {"c1", "c2"}, {"c1"}, {"c1"}, {"c1"}, {"c1", "c2"},
     {"c1", "c2"}, {"c1", "c2"} >>

TestNames == {"t_commit", "t_tree", "t_none", "t_origin"}

Ids == Commits \X TestNames

VARIABLES
  cfg,          \* index of the configuration the manager was built with
  job_cts,      \* Manager::job_cts: id -> generation of the job whose token it holds, 0 = no entry
  jobs,         \* id -> the jobs (supervisor tasks) spawned for it, oldest first
  job_counter,  \* the value in JobCounter::w
  pool_ready,   \* Pools: key -> ready list
  pool_queue,   \* Pools: wait queue of pending requests
  db,           \* Database: cache key -> recorded exit code, -1 = nothing recorded
  notifs,       \* per identity, the notifications sent on result_tx, in order
  caller,       \* what the owner of the manager is doing: "idle" | "settling",
                \* or "failed" (set_revisions has returned an error) or "dropped"
  settledDone,  \* settled() has returned and set_revisions was not called since
  calls,        \* number of set_revisions calls so far
  lastRevs,     \* argument of the latest set_revisions call
  rx,           \* the receivers handed out by results(), per subscriber
  waits,        \* the calls of JobCounter::zero in progress, per calling task
  watch,        \* the stream of Repo::watch_refs: its timer, channel and items
  text          \* the output of git rev-list on its way through split_lines

vars == << cfg, job_cts, jobs, job_counter, pool_ready, pool_queue, db, notifs,
           caller, settledDone, calls, lastRevs, rx, waits, watch, text >>

\* --------------------------------------------------------------- helpers
Tests == TestConfigs[cfg]

TestSet == { Tests[i] : i \in 1..Len(Tests) }

TestByName(n) == CHOOSE t \in TestSet : t.name = n

\* TestCaseId::new
TestCaseId(commit_hash, test_name) == << commit_hash, test_name >>

\* A variant of CacheHash that keys by-tree tests by the commit hash.
CacheHashByCommit(commit_hash, test) ==
  CASE test.cache_policy = "NoCaching" -> "none"
    [] test.cache_policy = "ByCommit" -> commit_hash
    [] test.cache_policy = "ByTree" -> commit_hash

\* TestCase::new: the cache hash, "none" standing for Option::None.
CacheHash(commit_hash, test) ==
  CASE test.cache_policy = "NoCaching" -> "none"
    [] test.cache_policy = "ByCommit" -> commit_hash
    [] test.cache_policy = "ByTree" -> commit_tree(commit_hash)

\* TestCase::storage_hash
storage_hash(commit_hash, test) ==
  IF CacheHash(commit_hash, test) = "none" THEN commit_hash
  ELSE CacheHash(commit_hash, test)

Hashes == Commits \cup { commit_tree(c) : c \in Commits }

ConfigHashes == {0, 1}

DbKeys == Hashes \X TestNames \X ConfigHashes

DbKey(hash, test) == << hash, test.name, test.config_hash >>

\* Database::cached_result: -1 stands for None.
cached_result(d, hash, test) == d[DbKey(hash, test)]

\* A variant of cache_lookup that takes a result recorded for the test's
\* name and the content hash under any config hash.
CacheLookupAnyConfig(d, commit_hash, test) ==
  IF CacheHash(commit_hash, test) = "none" THEN -1
  ELSE LET found == { ch \in ConfigHashes :
                        d[<< CacheHash(commit_hash, test), test.name, ch >>] # -1 }
       IN IF found = {} THEN -1
          ELSE d[<< CacheHash(commit_hash, test), test.name,
                    CHOOSE ch \in found : TRUE >>]

\* Manager::cache_lookup
cache_lookup(d, commit_hash, test) ==
  IF CacheHash(commit_hash, test) = "none" THEN -1
  ELSE cached_result(d, CacheHash(commit_hash, test), test)

\* TestCaseOutput::set_result
set_result(d, commit_hash, test, exit_code) ==
  [d EXCEPT ![DbKey(storage_hash(commit_hash, test), test)] = exit_code]

Status(kind, code, info) == [kind |-> kind, code |-> code, info |-> info]

Enqueued == Status("Enqueued", 0, "")
Started == Status("Started", 0, "")
Canceled == Status("Canceled", 0, "")
Completed(exit_code) == Status("Completed", exit_code, "")
Error(info, n) == Status("Error", n, info)

TerminalKinds == {"Canceled", "Error", "Completed"}

\* A Notification: the status, the test case's test (its config hash) and,
\* for the bookkeeping of the model, the job that sent it (0 = set_revisions).
Notification(id, gen, status) ==
  [gen |-> gen, status |-> status, config_hash |-> TestByName(id[2]).config_hash]

\* Manager::notify / tx.send
Send(ns, id, gen, status) ==
  [ns EXCEPT ![id] = Append(@, Notification(id, gen, status))]

\* A variant of JobCounterGet that only counts the change of zeroness.
JobCounterGetSticky(count) == IF count = 0 THEN 1 ELSE count

\* JobCounter::get
JobCounterGet(count) == count + 1

\* JobToken::drop
JobTokenDrop(count) == count - 1

NewJob == [pc |-> "spawned", ct |-> FALSE, res |-> NoRes, cwd |-> "none",
           child |-> "none", code |-> 0, sigs |-> <<>>, env |-> {},
           co |-> "none"]

\* The name of an environment variable that is a literal.
EnvVar(name) == << name >>

\* The name format!("LCI_RESOURCE_{}_{}", resource_name, i) builds.
ResourceVar(resource_name, i) == << "LCI_RESOURCE", resource_name, i >>

\* A variant of ChildEnv that counts the tokens from 1.
ChildEnvOneBased(commit_hash, res) ==
  { << EnvVar("LCI_COMMIT"), commit_hash >>, << EnvVar("LCI_ORIGIN"), "origin" >> }
    \cup UNION { { << ResourceVar(k, i), res[k][i] >> : i \in 1..Len(res[k]) } :
                  k \in TokenKeys }

\* The environment TestJob::run gives the child (test.rs:550-570), as a set
\* of (name, value) pairs: the commit, the manager's job_env (LCI_ORIGIN,
\* test.rs:284-287) and one variable per claimed token, counted from 0.
ChildEnv(commit_hash, res) ==
  { << EnvVar("LCI_COMMIT"), commit_hash >>, << EnvVar("LCI_ORIGIN"), "origin" >> }
    \cup UNION { { << ResourceVar(k, i - 1), res[k][i] >> : i \in 1..Len(res[k]) } :
                  k \in TokenKeys }

\* ------------------------------------------------------------ the pools
RECURSIVE SeqToSet(_)
SeqToSet(s) == IF s = <<>> THEN {} ELSE {Head(s)} \cup SeqToSet(Tail(s))

CanGrant(ready, need) == \A k \in Keys : Len(ready[k]) >= need[k]

Take(ready, need) == [k \in Keys |-> SubSeq(ready[k], 1, need[k])]

Remaining(ready, need) ==
  [k \in Keys |-> SubSeq(ready[k], need[k] + 1, Len(ready[k]))]

\* Dropping a handle puts its instances back on the ready lists.
Release(ready, res) == [k \in Keys |-> ready[k] \o res[k]]

\* The pool's scheduler: grant pending requests from the head of the wait
\* queue for as long as the head can be satisfied.
RECURSIVE Schedule(_, _, _)
Schedule(ready, queue, grants) ==
  IF queue = <<>> \/ ~CanGrant(ready, Head(queue).need)
  THEN [ready |-> ready, queue |-> queue, grants |-> grants]
  ELSE Schedule(Remaining(ready, Head(queue).need), Tail(queue),
                Append(grants, [id |-> Head(queue).id, gen |-> Head(queue).gen,
                                res |-> Take(ready, Head(queue).need)]))

\* Hand the granted instances to the jobs whose requests were granted.
ApplyGrants(js, grants) ==
  [id \in Ids |->
    [g \in 1..Len(js[id]) |->
      IF \E i \in 1..Len(grants) : grants[i].id = id /\ grants[i].gen = g
      THEN LET i == CHOOSE i \in 1..Len(grants) :
                      grants[i].id = id /\ grants[i].gen = g
           IN [js[id][g] EXCEPT !.pc = "granted", !.res = grants[i].res]
      ELSE js[id][g]]]

RemoveRequest(queue, id, gen) ==
  SelectSeq(queue, LAMBDA r : ~(r.id = id /\ r.gen = gen))

\* ---------------------------------------------------------- subscribers
\* The tasks that may call results().
Subscribers == {"s1", "s2"}

\* A subscriber that has not called results().
NoRx == [on |-> FALSE, start |-> 0, next |-> 0, lagged |-> FALSE, got |-> <<>>]

\* ------------------------------------------------------ the job counter
\* The tasks that may call JobCounter::zero (through Manager::settled).
Waiters == {"u1", "u2"}

\* A task that is not in JobCounter::zero.  changed: the watch channel's
\* version differs from the one the task's receiver has seen; entry: the
\* counter the call found; slept: the call has blocked in wait_for.
NoWait == [pc |-> "idle", changed |-> FALSE, entry |-> 0, slept |-> FALSE]

\* The closure of send_if_modified in JobCounter::get: the receivers are
\* told of the change when the counter was zero.
GetModifies(count) == count = 0

\* A variant of DropModifies that never tells the receivers.
DropModifiesNever(count) == FALSE

\* The closure of send_if_modified in JobToken::drop: the receivers are told
\* of the change when the counter has become zero.
DropModifies(count) == JobTokenDrop(count) = 0

\* watch::Sender::send_if_modified: a modification bumps the version, which
\* every receiver that exists then finds changed.
Notify(ws, modified) ==
  [u \in Waiters |->
    IF modified /\ ws[u].pc \in {"subscribed", "waiting"}
    THEN [ws[u] EXCEPT !.changed = TRUE] ELSE ws[u]]

\* ---------------------------------------------------- the ref watcher
\* The stream before its first poll: sleep_fut is Fuse::terminated(), the
\* channel is empty.  events: file-system events reported so far; chan:
\* events in the channel; recvd: events the stream has taken; armedBy: the
\* event that started the timer; timers, updates: timers started and
\* revision lists yielded so far; seen: the events that had happened when
\* the latest list was computed; pc: "select", or "yielded" while an item
\* waits for the consumer.
NoWatch == [timer |-> "terminated", events |-> 0, chan |-> 0, recvd |-> 0,
            armedBy |-> 0, timers |-> 0, updates |-> 0, seen |-> 0,
            pc |-> "select"]

\* --------------------------------------------------------- split_lines
\* The bytes of an output: the newline and two other bytes.
NL == 10

Bytes == {NL, 97, 98}

\* The byte strings of at most MaxLen bytes.
Inputs == UNION { [1..n -> Bytes] : n \in 0..MaxLen }

\* No output has been read yet.  sb: the bytes; ok: split_lines has not
\* panicked; ret: the vector it returned.
NoText == [pc |-> "none", sb |-> <<>>, ok |-> TRUE, ret |-> <<>>]

\* sb[i], with the indices of the code, which count from 0.
Byte(sb, i) == sb[i + 1]

\* &sb[a..b]
Slice(sb, a, b) == SubSeq(sb, a + 1, b)

\* The loop of split_lines and the push after it (git.rs:308-322), from
\* index i on.
RECURSIVE SplitLoop(_, _, _, _, _)
SplitLoop(sb, i, start, in_line, ret) ==
  IF i >= Len(sb)
  THEN IF in_line THEN Append(ret, Slice(sb, start, Len(sb))) ELSE ret
  ELSE IF in_line
       THEN IF Byte(sb, i) = NL
            THEN SplitLoop(sb, i + 1, start, FALSE, Append(ret, Slice(sb, start, i)))
            ELSE SplitLoop(sb, i + 1, start, TRUE, ret)
       ELSE IF Byte(sb, i) # NL
            THEN SplitLoop(sb, i + 1, i, TRUE, ret)
            ELSE SplitLoop(sb, i + 1, start, FALSE, ret)

\* OsStrExt::split_lines (git.rs:302-323): sb[0] is read before the length
\* is looked at, and indexing an empty slice panics.
split_lines(sb) ==
  IF Len(sb) = 0
  THEN [ok |-> FALSE, ret |-> <<>>]
  ELSE [ok |-> TRUE, ret |-> SplitLoop(sb, 1, 0, Byte(sb, 0) # NL, <<>>)]

\* ------------------------------------------------------------------ Init
\* A database without results.
EmptyDb == [k \in DbKeys |-> -1]

\* The database an earlier session has left: t_origin completed on c1.
WarmDb == [EmptyDb EXCEPT ![<< "c1", "t_origin", 0 >>] = ExitCodeOf["c1"]]

InitOn(cfgs, database) ==
  /\ cfg \in cfgs
  /\ job_cts = [id \in Ids |-> 0]
  /\ jobs = [id \in Ids |-> <<>>]
  /\ job_counter = 0
  /\ pool_ready = [k \in Keys |-> PoolConfigs[cfg][k]]
  /\ pool_queue = <<>>
  /\ db = database
  /\ notifs = [id \in Ids |-> <<>>]
  /\ caller = "idle"
  /\ settledDone = FALSE
  /\ calls = 0
  /\ lastRevs = {}
  /\ rx = [s \in Subscribers |-> NoRx]
  /\ waits = [u \in Waiters |-> NoWait]
  /\ watch = NoWatch
  /\ text = NoText

InitWith(cfgs) == InitOn(cfgs, EmptyDb)

Init == InitWith(MainConfigs)

\* --------------------------------------------------------- set_revisions
RECURSIVE SumLen(_, _)
SumLen(js, ids) ==
  IF ids = {} THEN 0
  ELSE LET id == CHOOSE x \in ids : TRUE
       IN Len(js[id]) + SumLen(js, ids \ {id})

\* Number of jobs spawned so far.
SpawnedJobs == SumLen(jobs, Ids)

\* desired = revs x tests (test.rs:379-387)
Desired(revs) == { TestCaseId(r, t.name) : r \in revs, t \in TestSet }

\* A variant of ToCancel that keeps the identities that are not desired
\* and cancels the desired ones.
ToCancelDesired(cts, desired) == { id \in Ids : cts[id] # 0 /\ id \in desired }

\* A variant of ToCancel that cancels every job in flight.
ToCancelAll(cts, desired) == { id \in Ids : cts[id] # 0 }

\* test.rs:392-397
ToCancel(cts, desired) == { id \in Ids : cts[id] # 0 /\ id \notin desired }

\* A variant of ToStart that also starts the identities that are in the map.
ToStartAll(cts, desired) == desired

\* test.rs:398-401
ToStart(cts, desired) == { id \in desired : cts[id] = 0 }

\* The identities of to_start that cache_lookup answers (test.rs:413).
CacheHits(d, to_start) ==
  { id \in to_start : cache_lookup(d, id[1], TestByName(id[2])) # -1 }

\* A variant of Misses in which a cache hit does not end the loop body
\* (the "continue" of test.rs:415 is missing).
MissesAll(d, to_start) == to_start

\* The identities of to_start that get a job (test.rs:418-431).
Misses(d, to_start) == to_start \ CacheHits(d, to_start)

RECURSIVE JobCounterGetN(_, _)
\* A variant of JobCounterGetN in which set_revisions takes no token: the
\* counter is left to the spawned task.
JobCounterGetNLate(count, n) == count

\* One JobCounter::get per job spawned (test.rs:427).
JobCounterGetN(count, n) ==
  IF n = 0 THEN count ELSE JobCounterGetN(JobCounterGet(count), n - 1)

\* A variant of CancelJobs that removes the entries without cancelling
\* their tokens.
CancelJobsForgetting(js, cts, to_cancel) == js

\* for id in to_cancel { job_cts[&id].cancel(); job_cts.remove(&id) }
CancelJobs(js, cts, to_cancel) ==
  [id \in Ids |->
    IF id \in to_cancel THEN [js[id] EXCEPT ![cts[id]].ct = TRUE] ELSE js[id]]

SetRevisions(revs) ==
  LET desired == Desired(revs)
      to_cancel == ToCancel(job_cts, desired)
      to_start == ToStart(job_cts, desired)
      hits == CacheHits(db, to_start)
      misses == Misses(db, to_start)
      cancelled == CancelJobs(jobs, job_cts, to_cancel)
  IN /\ caller = "idle"
     /\ calls < MaxCalls
     /\ SpawnedJobs + Cardinality(misses) <= MaxJobs
     /\ jobs' = [id \in Ids |->
                  IF id \in misses THEN Append(cancelled[id], NewJob)
                  ELSE cancelled[id]]
     /\ job_cts' = [id \in Ids |->
                     IF id \in to_cancel THEN 0
                     ELSE IF id \in misses THEN Len(jobs[id]) + 1
                     ELSE job_cts[id]]
     /\ notifs' = [id \in Ids |->
                    IF id \in hits
                    THEN Append(notifs[id],
                           Notification(id, 0,
                             Completed(cache_lookup(db, id[1], TestByName(id[2])))))
                    ELSE IF id \in misses
                    THEN Append(notifs[id], Notification(id, Len(jobs[id]) + 1, Enqueued))
                    ELSE notifs[id]]
     /\ job_counter' = JobCounterGetN(job_counter, Cardinality(misses))
     /\ calls' = calls + 1
     /\ lastRevs' = revs
     /\ settledDone' = FALSE
     /\ UNCHANGED << cfg, pool_ready, pool_queue, db, caller, rx, waits, watch, text >>

\* ---------------------------------------------------------------- settled
\* Manager::settled -> JobCounter::zero: returns at once when the counter
\* is zero, otherwise subscribes and waits.
SettledCall ==
  /\ caller = "idle"
  /\ ~settledDone
  /\ IF job_counter = 0
     THEN /\ settledDone' = TRUE
          /\ caller' = "idle"
     ELSE /\ settledDone' = FALSE
          /\ caller' = "settling"
  /\ UNCHANGED << cfg, job_cts, jobs, job_counter, pool_ready, pool_queue, db,
                  notifs, calls, lastRevs, rx, waits, watch, text >>

\* rx.wait_for(|count| *count == 0) completes.
SettledReturn ==
  /\ caller = "settling"
  /\ job_counter = 0
  /\ caller' = "idle"
  /\ settledDone' = TRUE
  /\ UNCHANGED << cfg, job_cts, jobs, job_counter, pool_ready, pool_queue, db,
                  notifs, calls, lastRevs, rx, waits, watch, text >>

\* ------------------------------------------------------ supervisor tasks
Frame == UNCHANGED << cfg, job_cts, caller, settledDone, calls, lastRevs, rx, waits, watch, text >>

JobTest(id) == TestByName(id[2])

NeedsWorktree(id) == JobTest(id).needs_resources["Worktree"] > 0

\* worktrees[0] of the claimed handle (test.rs:341)
OwnedWorktree(res) == Head(res["Worktree"])

\* A variant of ExitCancelled that sends Cancelled before it ends.
ExitCancelledNotifying(id, g, queue, ready) ==
  LET rel == Release(ready, jobs[id][g].res)
      sch == Schedule(rel, RemoveRequest(queue, id, g), <<>>)
      js == [jobs EXCEPT ![id][g].pc = "done", ![id][g].res = NoRes]
  IN /\ jobs' = ApplyGrants(js, sch.grants)
     /\ pool_ready' = sch.ready
     /\ pool_queue' = sch.queue
     /\ job_counter' = JobTokenDrop(job_counter)
     /\ notifs' = Send(notifs, id, g, Canceled)
     /\ UNCHANGED db

\* A variant of ExitCancelled in which the pool does not look at its wait
\* queue when a cancelled request gives back what it had been granted.
ExitCancelledNoReschedule(id, g, queue, ready) ==
  /\ jobs' = [jobs EXCEPT ![id][g].pc = "done", ![id][g].res = NoRes]
  /\ pool_ready' = Release(ready, jobs[id][g].res)
  /\ pool_queue' = RemoveRequest(queue, id, g)
  /\ job_counter' = JobTokenDrop(job_counter)
  /\ UNCHANGED << db, notifs >>

\* The task ends without having acquired anything: the cancellation arm of
\* the select (test.rs:332).  Dropping the job drops its JobToken.
ExitCancelled(id, g, queue, ready) ==
  LET rel == Release(ready, jobs[id][g].res)
      sch == Schedule(rel, RemoveRequest(queue, id, g), <<>>)
      js == [jobs EXCEPT ![id][g].pc = "done", ![id][g].res = NoRes]
  IN /\ jobs' = ApplyGrants(js, sch.grants)
     /\ pool_ready' = sch.ready
     /\ pool_queue' = sch.queue
     /\ job_counter' = JobTokenDrop(job_counter)
     /\ UNCHANGED << db, notifs >>

\* A variant of Finish that gives up when the send fails for want of a
\* receiver: no result is recorded and the job is never dropped.
FinishNeedsReceiver(id, g, jrec, status) ==
  IF \E s \in DOMAIN rx : rx[s].on
  THEN LET rel == Release(pool_ready, jrec.res)
           sch == Schedule(rel, pool_queue, <<>>)
           js == [jobs EXCEPT ![id][g] = [jrec EXCEPT !.pc = "done", !.res = NoRes]]
       IN /\ db' = IF status.kind = "Completed"
                   THEN set_result(db, id[1], JobTest(id), status.code)
                   ELSE db
          /\ notifs' = Send(notifs, id, g, status)
          /\ jobs' = ApplyGrants(js, sch.grants)
          /\ pool_ready' = sch.ready
          /\ pool_queue' = sch.queue
          /\ job_counter' = JobTokenDrop(job_counter)
  ELSE /\ jobs' = [jobs EXCEPT ![id][g] = [jrec EXCEPT !.pc = "done"]]
       /\ UNCHANGED << db, notifs, pool_ready, pool_queue, job_counter >>

\* A variant of Finish that records a result whatever the status is.
FinishRecordingAll(id, g, jrec, status) ==
  LET rel == Release(pool_ready, jrec.res)
      sch == Schedule(rel, pool_queue, <<>>)
      js == [jobs EXCEPT ![id][g] = [jrec EXCEPT !.pc = "done", !.res = NoRes]]
  IN /\ db' = set_result(db, id[1], JobTest(id), status.code)
     /\ notifs' = Send(notifs, id, g, status)
     /\ jobs' = ApplyGrants(js, sch.grants)
     /\ pool_ready' = sch.ready
     /\ pool_queue' = sch.queue
     /\ job_counter' = JobTokenDrop(job_counter)

\* A variant of Finish that never gives the resources back.
FinishKeepingResources(id, g, jrec, status) ==
  /\ db' = IF status.kind = "Completed"
           THEN set_result(db, id[1], JobTest(id), status.code)
           ELSE db
  /\ notifs' = Send(notifs, id, g, status)
  /\ jobs' = [jobs EXCEPT ![id][g] = [jrec EXCEPT !.pc = "done"]]
  /\ job_counter' = JobTokenDrop(job_counter)
  /\ UNCHANGED << pool_ready, pool_queue >>

\* The end of the acquired arm of the select (test.rs:346-366): record the
\* result when there is one, send the terminal notification, drop the
\* resources and the job.  jrec is the job as the run left it.
Finish(id, g, jrec, status) ==
  LET rel == Release(pool_ready, jrec.res)
      sch == Schedule(rel, pool_queue, <<>>)
      js == [jobs EXCEPT ![id][g] = [jrec EXCEPT !.pc = "done", !.res = NoRes]]
  IN /\ db' = IF status.kind = "Completed"
              THEN set_result(db, id[1], JobTest(id), status.code)
              ELSE db
     /\ notifs' = Send(notifs, id, g, status)
     /\ jobs' = ApplyGrants(js, sch.grants)
     /\ pool_ready' = sch.ready
     /\ pool_queue' = sch.queue
     /\ job_counter' = JobTokenDrop(job_counter)

\* A variant of SpawnChild in which a job whose spawn failed ends without
\* giving its resources back.
SpawnChildKeepsOnFailure(id, g, jrec, ns) ==
  \E ok \in BOOLEAN :
    IF ok
    THEN /\ jobs' = [jobs EXCEPT ![id][g] =
                       [jrec EXCEPT !.pc = "running", !.child = "alive",
                                    !.env = ChildEnv(id[1], jrec.res)]]
         /\ notifs' = ns
         /\ UNCHANGED << db, pool_ready, pool_queue, job_counter >>
    ELSE /\ notifs' = Send(ns, id, g, Error("spawning test command", 0))
         /\ jobs' = [jobs EXCEPT ![id][g] = [jrec EXCEPT !.pc = "done"]]
         /\ job_counter' = JobTokenDrop(job_counter)
         /\ UNCHANGED << db, pool_ready, pool_queue >>

\* TestJob::run up to the first await: spawn the child (test.rs:545-579).
\* jrec is the job holding its resources, with cwd set.
SpawnChild(id, g, jrec, ns) ==
  \E ok \in BOOLEAN :
    IF ok
    THEN /\ jobs' = [jobs EXCEPT ![id][g] =
                       [jrec EXCEPT !.pc = "running", !.child = "alive",
                                    !.env = ChildEnv(id[1], jrec.res)]]
         /\ notifs' = ns
         /\ UNCHANGED << db, pool_ready, pool_queue, job_counter >>
    ELSE LET rel == Release(pool_ready, jrec.res)
             sch == Schedule(rel, pool_queue, <<>>)
             js == [jobs EXCEPT ![id][g] = [jrec EXCEPT !.pc = "done", !.res = NoRes]]
         IN /\ notifs' = Send(ns, id, g, Error("spawning test command", 0))
            /\ jobs' = ApplyGrants(js, sch.grants)
            /\ pool_ready' = sch.ready
            /\ pool_queue' = sch.queue
            /\ job_counter' = JobTokenDrop(job_counter)
            /\ UNCHANGED db

\* A variant of TaskStart in which a request that can be satisfied at once
\* is granted whatever waits in the queue.
TaskStartFirstFit(id, g) ==
  /\ g \in 1..Len(jobs[id])
  /\ jobs[id][g].pc = "spawned"
  /\ IF jobs[id][g].ct
     THEN ExitCancelled(id, g, pool_queue, pool_ready)
     ELSE LET need == JobTest(id).needs_resources
              req == [id |-> id, gen |-> g, need |-> need]
          IN IF CanGrant(pool_ready, need)
             THEN /\ jobs' = [jobs EXCEPT ![id][g].pc = "granted",
                                          ![id][g].res = Take(pool_ready, need)]
                  /\ pool_ready' = Remaining(pool_ready, need)
                  /\ UNCHANGED << pool_queue, db, notifs, job_counter >>
             ELSE /\ jobs' = [jobs EXCEPT ![id][g].pc = "waiting"]
                  /\ pool_queue' = Append(pool_queue, req)
                  /\ UNCHANGED << pool_ready, db, notifs, job_counter >>
  /\ Frame

\* A variant of TaskStart that claims key by key: a job whose request cannot
\* be granted as a whole takes the instances that are ready and waits for
\* the rest.
TaskStartKeyByKey(id, g) ==
  /\ g \in 1..Len(jobs[id])
  /\ jobs[id][g].pc = "spawned"
  /\ IF jobs[id][g].ct
     THEN ExitCancelled(id, g, pool_queue, pool_ready)
     ELSE LET need == JobTest(id).needs_resources
              req == [id |-> id, gen |-> g, need |-> need]
              sch == Schedule(pool_ready, Append(pool_queue, req), <<>>)
              part == [k \in Keys |->
                        IF Len(pool_ready[k]) < need[k]
                        THEN Len(pool_ready[k]) ELSE need[k]]
          IN IF sch.grants # <<>>
             THEN /\ jobs' = ApplyGrants([jobs EXCEPT ![id][g].pc = "waiting"],
                                         sch.grants)
                  /\ pool_ready' = sch.ready
                  /\ pool_queue' = sch.queue
                  /\ UNCHANGED << db, notifs, job_counter >>
             ELSE /\ jobs' = [jobs EXCEPT ![id][g].pc = "waiting",
                                          ![id][g].res = Take(pool_ready, part)]
                  /\ pool_ready' = Remaining(pool_ready, part)
                  /\ pool_queue' = sch.queue
                  /\ UNCHANGED << db, notifs, job_counter >>
  /\ Frame

\* A variant of TaskStart that asks the pool for the worktrees only.
TaskStartWorktreeOnly(id, g) ==
  /\ g \in 1..Len(jobs[id])
  /\ jobs[id][g].pc = "spawned"
  /\ IF jobs[id][g].ct
     THEN ExitCancelled(id, g, pool_queue, pool_ready)
     ELSE LET req == [id |-> id, gen |-> g,
                      need |-> [NoNeeds EXCEPT !["Worktree"] =
                                  JobTest(id).needs_resources["Worktree"]]]
              sch == Schedule(pool_ready, Append(pool_queue, req), <<>>)
              js == [jobs EXCEPT ![id][g].pc = "waiting"]
          IN /\ jobs' = ApplyGrants(js, sch.grants)
             /\ pool_ready' = sch.ready
             /\ pool_queue' = sch.queue
             /\ UNCHANGED << db, notifs, job_counter >>
  /\ Frame

\* A variant of TaskStart that asks the pool for a worktree for every job.
TaskStartWithWorktree(id, g) ==
  /\ g \in 1..Len(jobs[id])
  /\ jobs[id][g].pc = "spawned"
  /\ IF jobs[id][g].ct
     THEN ExitCancelled(id, g, pool_queue, pool_ready)
     ELSE LET req == [id |-> id, gen |-> g,
                      need |-> [JobTest(id).needs_resources EXCEPT !["Worktree"] = 1]]
              sch == Schedule(pool_ready, Append(pool_queue, req), <<>>)
              js == [jobs EXCEPT ![id][g].pc = "waiting"]
          IN /\ jobs' = ApplyGrants(js, sch.grants)
             /\ pool_ready' = sch.ready
             /\ pool_queue' = sch.queue
             /\ UNCHANGED << db, notifs, job_counter >>
  /\ Frame

\* First poll of the task (test.rs:324-333): the select is biased, so the
\* cancellation is looked at first; otherwise the request goes to the pool.
TaskStart(id, g) ==
  /\ g \in 1..Len(jobs[id])
  /\ jobs[id][g].pc = "spawned"
  /\ IF jobs[id][g].ct
     THEN ExitCancelled(id, g, pool_queue, pool_ready)
     ELSE LET req == [id |-> id, gen |-> g, need |-> JobTest(id).needs_resources]
              sch == Schedule(pool_ready, Append(pool_queue, req), <<>>)
              js == [jobs EXCEPT ![id][g].pc = "waiting"]
          IN /\ jobs' = ApplyGrants(js, sch.grants)
             /\ pool_ready' = sch.ready
             /\ pool_queue' = sch.queue
             /\ UNCHANGED << db, notifs, job_counter >>
  /\ Frame

\* A variant of TaskResume whose cancellation arm sends Cancelled.
TaskResumeCancelNotifies(id, g) ==
  /\ g \in 1..Len(jobs[id])
  /\ jobs[id][g].pc \in {"waiting", "granted"}
  /\ IF jobs[id][g].ct
     THEN ExitCancelledNotifying(id, g, pool_queue, pool_ready)
     ELSE /\ jobs[id][g].pc = "granted"
          /\ IF NeedsWorktree(id)
             THEN /\ jobs' = [jobs EXCEPT ![id][g].pc = "started",
                                          ![id][g].cwd = OwnedWorktree(jobs[id][g].res)]
                  /\ notifs' = Send(notifs, id, g, Started)
                  /\ UNCHANGED << db, pool_ready, pool_queue, job_counter >>
             ELSE SpawnChild(id, g, [jobs[id][g] EXCEPT !.cwd = "origin"],
                             Send(notifs, id, g, Started))
  /\ Frame

\* A variant of TaskResume whose select is not biased: granted resources
\* are taken even when the cancellation is pending.
TaskResumeUnbiased(id, g) ==
  /\ g \in 1..Len(jobs[id])
  /\ jobs[id][g].pc \in {"waiting", "granted"}
  /\ IF jobs[id][g].pc = "waiting"
     THEN /\ jobs[id][g].ct
          /\ ExitCancelled(id, g, pool_queue, pool_ready)
     ELSE IF NeedsWorktree(id)
          THEN /\ jobs' = [jobs EXCEPT ![id][g].pc = "started",
                                       ![id][g].cwd = OwnedWorktree(jobs[id][g].res)]
               /\ notifs' = Send(notifs, id, g, Started)
               /\ UNCHANGED << db, pool_ready, pool_queue, job_counter >>
          ELSE SpawnChild(id, g, [jobs[id][g] EXCEPT !.cwd = "origin"],
                          Send(notifs, id, g, Started))
  /\ Frame

\* A variant of TaskResume that runs every job in the origin repository,
\* without a checkout.
TaskResumeInOrigin(id, g) ==
  /\ g \in 1..Len(jobs[id])
  /\ jobs[id][g].pc \in {"waiting", "granted"}
  /\ IF jobs[id][g].ct
     THEN ExitCancelled(id, g, pool_queue, pool_ready)
     ELSE /\ jobs[id][g].pc = "granted"
          /\ SpawnChild(id, g, [jobs[id][g] EXCEPT !.cwd = "origin"],
                        Send(notifs, id, g, Started))
  /\ Frame

\* A later poll of the select (test.rs:331-345): cancellation first, then
\* the granted resources: send Started, then check out or run.
TaskResume(id, g) ==
  /\ g \in 1..Len(jobs[id])
  /\ jobs[id][g].pc \in {"waiting", "granted"}
  /\ IF jobs[id][g].ct
     THEN ExitCancelled(id, g, pool_queue, pool_ready)
     ELSE /\ jobs[id][g].pc = "granted"
          /\ IF NeedsWorktree(id)
             THEN /\ jobs' = [jobs EXCEPT ![id][g].pc = "started",
                                          ![id][g].cwd = OwnedWorktree(jobs[id][g].res)]
                  /\ notifs' = Send(notifs, id, g, Started)
                  /\ UNCHANGED << db, pool_ready, pool_queue, job_counter >>
             ELSE SpawnChild(id, g, [jobs[id][g] EXCEPT !.cwd = "origin"],
                             Send(notifs, id, g, Started))
  /\ Frame

\* A variant of CheckoutDone that looks at the cancellation token when the
\* checkout has ended and gives up without spawning the child.
CheckoutDoneObservesCancel(id, g) ==
  /\ g \in 1..Len(jobs[id])
  /\ jobs[id][g].pc = "started"
  /\ IF jobs[id][g].ct
     THEN Finish(id, g, jobs[id][g], Canceled)
     ELSE \/ Finish(id, g, jobs[id][g], Error("checkout failed", 0))
          \/ SpawnChild(id, g, [jobs[id][g] EXCEPT !.co = id[1]], notifs)
  /\ Frame

\* A variant of CheckoutDone that announces the start once more after the
\* checkout.
CheckoutDoneNotifying(id, g) ==
  /\ g \in 1..Len(jobs[id])
  /\ jobs[id][g].pc = "started"
  /\ \/ Finish(id, g, jobs[id][g], Error("checkout failed", 0))
     \/ SpawnChild(id, g, [jobs[id][g] EXCEPT !.co = id[1]],
                   Send(notifs, id, g, Started))
  /\ Frame

\* TestJob::checkout_and_run after the checkout has ended (test.rs:530-531):
\* it failed, or the job's worktree now holds the commit (co) and the child
\* is spawned in it.
CheckoutDone(id, g) ==
  /\ g \in 1..Len(jobs[id])
  /\ jobs[id][g].pc = "started"
  /\ \/ Finish(id, g, jobs[id][g], Error("checkout failed", 0))
     \/ SpawnChild(id, g, [jobs[id][g] EXCEPT !.co = id[1]], notifs)
  /\ Frame

\* A variant of ChildWaitDone that reports a child killed by a signal as
\* cancelled.
ChildWaitDoneCancels(id, g) ==
  /\ g \in 1..Len(jobs[id])
  /\ jobs[id][g].pc = "running"
  /\ jobs[id][g].child \in {"exited", "signaled"}
  /\ IF jobs[id][g].child = "exited"
     THEN Finish(id, g, jobs[id][g], Completed(jobs[id][g].code))
     ELSE Finish(id, g, jobs[id][g], Canceled)
  /\ Frame

\* A variant of ChildWaitDone that takes the number of the signal that
\* killed the child for its exit code.
ChildWaitDoneIgnoresSignal(id, g) ==
  /\ g \in 1..Len(jobs[id])
  /\ jobs[id][g].pc = "running"
  /\ jobs[id][g].child \in {"exited", "signaled"}
  /\ Finish(id, g, jobs[id][g], Completed(jobs[id][g].code))
  /\ Frame

\* The child ended and future::select returns Left (test.rs:585-594); the
\* child future is polled first, so this arm wins over a cancellation.
ChildWaitDone(id, g) ==
  /\ g \in 1..Len(jobs[id])
  /\ jobs[id][g].pc = "running"
  /\ jobs[id][g].child \in {"exited", "signaled"}
  /\ IF jobs[id][g].child = "exited"
     THEN Finish(id, g, jobs[id][g], Completed(jobs[id][g].code))
     ELSE Finish(id, g, jobs[id][g], Error("terminated by signal", jobs[id][g].code))
  /\ Frame

\* A variant of CancelObserved that gives the resources back as soon as the
\* child has been interrupted, without waiting for it.
CancelObservedReleasing(id, g) ==
  /\ g \in 1..Len(jobs[id])
  /\ jobs[id][g].pc = "running"
  /\ jobs[id][g].child = "alive"
  /\ jobs[id][g].ct
  /\ LET rel == Release(pool_ready, jobs[id][g].res)
         sch == Schedule(rel, pool_queue, <<>>)
         js == [jobs EXCEPT ![id][g].pc = "draining",
                            ![id][g].sigs = Append(@, SIGINT),
                            ![id][g].res = NoRes]
     IN /\ jobs' = ApplyGrants(js, sch.grants)
        /\ pool_ready' = sch.ready
        /\ pool_queue' = sch.queue
        /\ UNCHANGED << db, notifs, job_counter >>
  /\ Frame

\* A variant of CancelObserved that drops the job's counter token as soon as
\* the child has been interrupted.
CancelObservedDropsToken(id, g) ==
  /\ g \in 1..Len(jobs[id])
  /\ jobs[id][g].pc = "running"
  /\ jobs[id][g].child = "alive"
  /\ jobs[id][g].ct
  /\ jobs' = [jobs EXCEPT ![id][g].pc = "draining",
                          ![id][g].sigs = Append(@, SIGINT)]
  /\ job_counter' = JobTokenDrop(job_counter)
  /\ UNCHANGED << db, notifs, pool_ready, pool_queue >>
  /\ Frame

\* The cancellation is seen while the child runs (test.rs:595-601): SIGINT.
CancelObserved(id, g) ==
  /\ g \in 1..Len(jobs[id])
  /\ jobs[id][g].pc = "running"
  /\ jobs[id][g].child = "alive"
  /\ jobs[id][g].ct
  /\ \/ /\ jobs' = [jobs EXCEPT ![id][g].pc = "draining",
                                ![id][g].sigs = Append(@, SIGINT)]
        /\ UNCHANGED << db, notifs, pool_ready, pool_queue, job_counter >>
     \/ Finish(id, g, jobs[id][g], Error("couldn't interrupt child job", 0))
  /\ Frame

\* A variant of DrainChildDone that reports the exit code of a child that
\* exited within the grace period.
DrainChildDoneCompletes(id, g) ==
  /\ g \in 1..Len(jobs[id])
  /\ jobs[id][g].pc = "draining"
  /\ jobs[id][g].child \in {"exited", "signaled"}
  /\ IF jobs[id][g].child = "exited"
     THEN Finish(id, g, jobs[id][g], Completed(jobs[id][g].code))
     ELSE Finish(id, g, jobs[id][g], Canceled)
  /\ Frame

\* The child ended within the grace period (test.rs:603, 611).
DrainChildDone(id, g) ==
  /\ g \in 1..Len(jobs[id])
  /\ jobs[id][g].pc = "draining"
  /\ jobs[id][g].child \in {"exited", "signaled"}
  /\ Finish(id, g, jobs[id][g], Canceled)
  /\ Frame

\* A variant of GraceTimeout that gives up on the child without SIGKILL.
GraceTimeoutNoKill(id, g) ==
  /\ g \in 1..Len(jobs[id])
  /\ jobs[id][g].pc = "draining"
  /\ Finish(id, g, jobs[id][g], Canceled)
  /\ Frame

\* The grace period expired (test.rs:604-611): SIGKILL, then Ok(None).
GraceTimeout(id, g) ==
  /\ g \in 1..Len(jobs[id])
  /\ jobs[id][g].pc = "draining"
  /\ \/ Finish(id, g, [jobs[id][g] EXCEPT !.sigs = Append(@, SIGKILL)], Canceled)
     \/ Finish(id, g, jobs[id][g], Error("couldn't interrupt child job", 0))
  /\ Frame

\* -------------------------------------------------------------- children
\* The child exits with its exit code.
ChildExit(id, g) ==
  /\ g \in 1..Len(jobs[id])
  /\ jobs[id][g].child = "alive"
  /\ jobs' = [jobs EXCEPT ![id][g].child = "exited", ![id][g].code = ExitCodeOf[id[1]]]
  /\ UNCHANGED << db, notifs, pool_ready, pool_queue, job_counter >>
  /\ Frame

\* The child is terminated by a signal: one the supervisor delivered, or a
\* SIGTERM from elsewhere.
ChildSignaled(id, g, sig) ==
  /\ g \in 1..Len(jobs[id])
  /\ jobs[id][g].child = "alive"
  /\ sig \in SeqToSet(jobs[id][g].sigs) \cup {SIGTERM}
  /\ jobs' = [jobs EXCEPT ![id][g].child = "signaled", ![id][g].code = sig]
  /\ UNCHANGED << db, notifs, pool_ready, pool_queue, job_counter >>
  /\ Frame

Next ==
  \/ \E revs \in SUBSET RevConfigs[cfg] : SetRevisions(revs)
  \/ SettledCall
  \/ SettledReturn
  \/ \E id \in Ids, g \in 1..MaxJobs : TaskStart(id, g)
  \/ \E id \in Ids, g \in 1..MaxJobs : TaskResume(id, g)
  \/ \E id \in Ids, g \in 1..MaxJobs : CheckoutDone(id, g)
  \/ \E id \in Ids, g \in 1..MaxJobs : ChildWaitDone(id, g)
  \/ \E id \in Ids, g \in 1..MaxJobs : CancelObserved(id, g)
  \/ \E id \in Ids, g \in 1..MaxJobs : DrainChildDone(id, g)
  \/ \E id \in Ids, g \in 1..MaxJobs : GraceTimeout(id, g)
  \/ \E id \in Ids, g \in 1..MaxJobs : ChildExit(id, g)
  \/ \E id \in Ids, g \in 1..MaxJobs, s \in {SIGINT, SIGKILL, SIGTERM} : ChildSignaled(id, g, s)

Spec == Init /\ [][Next]_vars

\* --------------------------------------------- a manager with user tokens
InitTokens == InitWith(TokenConfigs)

SpecTokens == InitTokens /\ [][Next]_vars

\* ------------------------------------- a fixed desired set, no failures
\* The configurations in which every request fits the populations and the
\* jobs outnumber the worktrees.
LiveConfigs == {1, 2, 3, 6}

\* No checkout, spawn or signal delivery has failed and no child was killed.
NoFailure ==
  \A id \in Ids :
    \A i \in 1..Len(notifs[id]) : notifs[id][i].status.kind # "Error"

\* The caller passes the same revisions at every call.
SetRevisionsFixed(revs) ==
  /\ calls > 0 => revs = lastRevs
  /\ SetRevisions(revs)

\* A step of a supervisor task or the exit of a child; checkouts and spawns
\* succeed.
LiveJobStep ==
  /\ \/ \E id \in Ids, g \in 1..MaxJobs : TaskStart(id, g)
     \/ \E id \in Ids, g \in 1..MaxJobs : TaskResume(id, g)
     \/ \E id \in Ids, g \in 1..MaxJobs : CheckoutDone(id, g)
     \/ \E id \in Ids, g \in 1..MaxJobs : ChildWaitDone(id, g)
     \/ \E id \in Ids, g \in 1..MaxJobs : ChildExit(id, g)
  /\ NoFailure'

NextLive ==
  \/ \E revs \in SUBSET RevConfigs[cfg] : SetRevisionsFixed(revs)
  \/ SettledCall
  \/ SettledReturn
  \/ LiveJobStep

InitLive == InitWith(LiveConfigs)

\* The runtime keeps polling the tasks that can make progress, and every
\* child exits.
SpecLive == InitLive /\ [][NextLive]_vars /\ WF_vars(LiveJobStep)

\* ------------------------------------------------------------- shutdown
\* What happens without waiting for the child's own doing: a step of a
\* supervisor task (the runtime polls a task that can go on, a checkout
\* ends, the grace timer fires) or the death of a child that was sent
\* SIGKILL, which no process can ignore.
DrainStep ==
  \/ \E id \in Ids, g \in 1..MaxJobs : TaskStart(id, g)
  \/ \E id \in Ids, g \in 1..MaxJobs : TaskResume(id, g)
  \/ \E id \in Ids, g \in 1..MaxJobs : CheckoutDone(id, g)
  \/ \E id \in Ids, g \in 1..MaxJobs : ChildWaitDone(id, g)
  \/ \E id \in Ids, g \in 1..MaxJobs : CancelObserved(id, g)
  \/ \E id \in Ids, g \in 1..MaxJobs : DrainChildDone(id, g)
  \/ \E id \in Ids, g \in 1..MaxJobs : GraceTimeout(id, g)
  \/ \E id \in Ids, g \in 1..MaxJobs : ChildSignaled(id, g, SIGKILL)

\* The configurations in which a job can wait for the worktree of another.
DrainConfigs == {1}

InitDrain == InitWith(DrainConfigs)

\* A child may run for ever and may ignore SIGINT.
SpecDrain == InitDrain /\ [][Next]_vars /\ WF_vars(DrainStep)

\* ------------------------------------------- requests of different sizes
\* A step of a supervisor task or the exit of a child: the runtime keeps
\* polling the tasks that can go on, timers fire and every child exits, so
\* that every holder of resources gives them back.
PoolStep ==
  \/ \E id \in Ids, g \in 1..MaxJobs : TaskStart(id, g)
  \/ \E id \in Ids, g \in 1..MaxJobs : TaskResume(id, g)
  \/ \E id \in Ids, g \in 1..MaxJobs : CheckoutDone(id, g)
  \/ \E id \in Ids, g \in 1..MaxJobs : ChildWaitDone(id, g)
  \/ \E id \in Ids, g \in 1..MaxJobs : CancelObserved(id, g)
  \/ \E id \in Ids, g \in 1..MaxJobs : DrainChildDone(id, g)
  \/ \E id \in Ids, g \in 1..MaxJobs : GraceTimeout(id, g)
  \/ \E id \in Ids, g \in 1..MaxJobs : ChildExit(id, g)

\* The database an earlier session has left: t_commit completed on c1.
SizesDb == [EmptyDb EXCEPT ![<< "c1", "t_commit", 0 >>] = ExitCodeOf["c1"]]

InitSizes == InitOn(SizeConfigs, SizesDb)

\* The caller only calls set_revisions, and a child ends by exiting.
NextSizes ==
  \/ \E revs \in SUBSET RevConfigs[cfg] : SetRevisions(revs)
  \/ PoolStep

SpecSizes == InitSizes /\ [][NextSizes]_vars /\ WF_vars(PoolStep)

\* ------------------------------------------ the job counter on its own
CounterFrame ==
  UNCHANGED << cfg, job_cts, jobs, pool_ready, pool_queue, db, notifs, caller,
               settledDone, calls, lastRevs, rx, watch, text >>

\* JobCounter::get, called by any task.
CounterGet ==
  /\ job_counter < MaxJobs
  /\ job_counter' = JobCounterGet(job_counter)
  /\ waits' = Notify(waits, GetModifies(job_counter))
  /\ CounterFrame

\* JobToken::drop, called by any task that holds a token.
CounterDrop ==
  /\ job_counter > 0
  /\ job_counter' = JobTokenDrop(job_counter)
  /\ waits' = Notify(waits, DropModifies(job_counter))
  /\ CounterFrame

\* JobCounter::zero up to the end of the borrow (test.rs:479-482).
ZeroEnter(u) ==
  /\ waits[u].pc = "idle"
  /\ waits' = [waits EXCEPT ![u] =
                 [pc |-> IF job_counter = 0 THEN "returned" ELSE "checked",
                  changed |-> FALSE, entry |-> job_counter, slept |-> FALSE]]
  /\ UNCHANGED job_counter
  /\ CounterFrame

\* self.w.subscribe() (test.rs:486): the new receiver has seen the version
\* of the moment.
ZeroSubscribe(u) ==
  /\ waits[u].pc = "checked"
  /\ waits' = [waits EXCEPT ![u].pc = "subscribed", ![u].changed = FALSE]
  /\ UNCHANGED job_counter
  /\ CounterFrame

\* A poll of rx.wait_for(|count| *count == 0) (test.rs:488): the first poll
\* looks at the value whatever the version is, a later poll happens when the
\* version has changed; the call returns when the value it sees is zero and
\* blocks otherwise.
ZeroPoll(u) ==
  /\ waits[u].pc = "subscribed" \/ (waits[u].pc = "waiting" /\ waits[u].changed)
  /\ waits' = [waits EXCEPT ![u].changed = FALSE,
                            ![u].pc = IF job_counter = 0 THEN "returned" ELSE "waiting",
                            ![u].slept = @ \/ job_counter # 0]
  /\ UNCHANGED job_counter
  /\ CounterFrame

\* The caller goes on after zero() has returned.
ZeroLeave(u) ==
  /\ waits[u].pc = "returned"
  /\ waits' = [waits EXCEPT ![u].pc = "idle"]
  /\ UNCHANGED job_counter
  /\ CounterFrame

\* The runtime runs a task that can go on.
ZeroStep(u) == ZeroSubscribe(u) \/ ZeroPoll(u)

NextCounter ==
  \/ CounterGet
  \/ CounterDrop
  \/ \E u \in Waiters : ZeroEnter(u)
  \/ \E u \in Waiters : ZeroSubscribe(u)
  \/ \E u \in Waiters : ZeroPoll(u)
  \/ \E u \in Waiters : ZeroLeave(u)

SpecCounter ==
  InitDrain /\ [][NextCounter]_vars /\ \A u \in Waiters : WF_vars(ZeroStep(u))

\* ------------------------------------------- a test case cannot be built
\* The identities whose TestCase::new asks the repository for the tree of
\* the commit (test.rs:656-661).
NeedsTree(desired) ==
  { id \in desired : TestByName(id[2]).cache_policy = "ByTree" }

\* A variant of SetRevisionsBuildFails in which the jobs that are not
\* desired are cancelled before the test cases are built.
SetRevisionsBuildFailsLate(revs) ==
  LET to_cancel == ToCancel(job_cts, Desired(revs))
  IN /\ caller = "idle"
     /\ calls < MaxCalls
     /\ NeedsTree(Desired(revs)) # {}
     /\ jobs' = CancelJobs(jobs, job_cts, to_cancel)
     /\ job_cts' = [id \in Ids |-> IF id \in to_cancel THEN 0 ELSE job_cts[id]]
     /\ caller' = "failed"
     /\ calls' = calls + 1
     /\ lastRevs' = revs
     /\ UNCHANGED << cfg, job_counter, pool_ready, pool_queue, db, notifs,
                     settledDone, rx, waits, watch, text >>

\* set_revisions when Worktree::commit_tree fails for one of the test cases:
\* try_join_all(...).await.context("setting up test cases")? returns the
\* error (test.rs:379-385) before anything else is done.
SetRevisionsBuildFails(revs) ==
  /\ caller = "idle"
  /\ calls < MaxCalls
  /\ NeedsTree(Desired(revs)) # {}
  /\ caller' = "failed"
  /\ calls' = calls + 1
  /\ lastRevs' = revs
  /\ UNCHANGED << cfg, job_cts, jobs, job_counter, pool_ready, pool_queue, db,
                  notifs, settledDone, rx, waits, watch, text >>

\* The caller has dealt with the error and goes on.
CallerRecovers ==
  /\ caller = "failed"
  /\ caller' = "idle"
  /\ UNCHANGED << cfg, job_cts, jobs, job_counter, pool_ready, pool_queue, db,
                  notifs, settledDone, calls, lastRevs, rx, waits, watch, text >>

\* The configurations with a by-tree test.
BuildConfigs == {2}

InitBuild == InitWith(BuildConfigs)

NextBuild ==
  \/ Next
  \/ \E revs \in SUBSET RevConfigs[cfg] : SetRevisionsBuildFails(revs)
  \/ CallerRecovers

SpecBuild == InitBuild /\ [][NextBuild]_vars

\* ------------------------------------------ cancelling before the child
\* The caller changes the revisions only while the jobs it cancels thereby
\* have no child yet: they wait for resources or check out their commit.
SetRevisionsInCheckout(revs) ==
  /\ \A id \in ToCancel(job_cts, Desired(revs)) :
       jobs[id][job_cts[id]].pc \in {"spawned", "waiting", "granted", "started"}
  /\ SetRevisions(revs)

\* A step of a supervisor task or of a child; checkouts, spawns and signal
\* deliveries succeed, and a child is signalled by its supervisor only.
CheckoutJobStep ==
  /\ \/ \E id \in Ids, g \in 1..MaxJobs : TaskStart(id, g)
     \/ \E id \in Ids, g \in 1..MaxJobs : TaskResume(id, g)
     \/ \E id \in Ids, g \in 1..MaxJobs : CheckoutDone(id, g)
     \/ \E id \in Ids, g \in 1..MaxJobs : ChildWaitDone(id, g)
     \/ \E id \in Ids, g \in 1..MaxJobs : CancelObserved(id, g)
     \/ \E id \in Ids, g \in 1..MaxJobs : DrainChildDone(id, g)
     \/ \E id \in Ids, g \in 1..MaxJobs : GraceTimeout(id, g)
     \/ \E id \in Ids, g \in 1..MaxJobs : ChildExit(id, g)
     \/ \E id \in Ids, g \in 1..MaxJobs, sig \in {SIGINT, SIGKILL} :
          ChildSignaled(id, g, sig)
  /\ NoFailure'

NextCheckout ==
  \/ \E revs \in SUBSET RevConfigs[cfg] : SetRevisionsInCheckout(revs)
  \/ CheckoutJobStep

SpecCheckout == InitDrain /\ [][NextCheckout]_vars

\* -------------------------------------------- Repo::watch_refs (git.rs)
WatchFrame ==
  UNCHANGED << cfg, job_cts, jobs, job_counter, pool_ready, pool_queue, db,
               notifs, caller, settledDone, calls, lastRevs, rx, waits, text >>

\* The notify callback sends an event down the unbounded channel
\* (git.rs:192-197).
FsEvent ==
  /\ watch.events < MaxEvents
  /\ watch' = [watch EXCEPT !.events = @ + 1, !.chan = @ + 1]
  /\ WatchFrame

\* A variant of StreamRecv that starts the timer anew at every event.
StreamRecvRestarting ==
  /\ watch.pc = "select"
  /\ watch.chan > 0
  /\ watch' = [watch EXCEPT !.chan = @ - 1, !.recvd = @ + 1,
                            !.timer = "pending", !.armedBy = watch.recvd + 1,
                            !.timers = IF watch.timer = "terminated" THEN @ + 1 ELSE @]
  /\ WatchFrame

\* The rx.next() arm of the select (git.rs:217-226): the timer is set when
\* it is terminated, and left alone otherwise.
StreamRecv ==
  /\ watch.pc = "select"
  /\ watch.chan > 0
  /\ watch' = IF watch.timer = "terminated"
              THEN [watch EXCEPT !.chan = @ - 1, !.recvd = @ + 1,
                                 !.timer = "pending", !.armedBy = watch.recvd + 1,
                                 !.timers = @ + 1]
              ELSE [watch EXCEPT !.chan = @ - 1, !.recvd = @ + 1]
  /\ WatchFrame

\* One second has passed since the timer was set.
TimerElapses ==
  /\ watch.timer = "pending"
  /\ watch' = [watch EXCEPT !.timer = "elapsed"]
  /\ WatchFrame

\* The sleep_fut arm of the select (git.rs:215): the fused timer is
\* terminated once it has completed, the revision list is computed from the
\* repository as it is now and yielded.
StreamYield ==
  /\ watch.pc = "select"
  /\ watch.timer = "elapsed"
  /\ watch' = [watch EXCEPT !.timer = "terminated", !.updates = @ + 1,
                            !.seen = watch.events, !.pc = "yielded"]
  /\ WatchFrame

\* The consumer has taken the item and polls the stream again.
ConsumerNext ==
  /\ watch.pc = "yielded"
  /\ watch' = [watch EXCEPT !.pc = "select"]
  /\ WatchFrame

NextWatch ==
  \/ FsEvent
  \/ StreamRecv
  \/ TimerElapses
  \/ StreamYield
  \/ ConsumerNext

\* The consumer keeps polling the stream and the timer runs.
SpecWatch ==
  /\ InitDrain
  /\ [][NextWatch]_vars
  /\ WF_vars(StreamRecv) /\ WF_vars(TimerElapses)
  /\ WF_vars(StreamYield) /\ WF_vars(ConsumerNext)

\* --------------------------------------------- Repo::rev_list (git.rs)
TextFrame ==
  UNCHANGED << cfg, job_cts, jobs, job_counter, pool_ready, pool_queue, db,
               notifs, caller, settledDone, calls, lastRevs, rx, waits, watch >>

\* git rev-list has exited with code 0 and this output (git.rs:134-149).
GitOutput(sb) ==
  /\ text.pc = "none"
  /\ text' = [text EXCEPT !.pc = "output", !.sb = sb]
  /\ TextFrame

\* OsStr::from_bytes(&output.stdout).split_lines() (git.rs:150-151)
SplitLines ==
  /\ text.pc = "output"
  /\ text' = [text EXCEPT !.pc = "split", !.ok = split_lines(text.sb).ok,
                          !.ret = split_lines(text.sb).ret]
  /\ TextFrame

NextLines ==
  \/ \E sb \in Inputs : GitOutput(sb)
  \/ SplitLines

SpecLines == InitDrain /\ [][NextLines]_vars

\* ------------------------------------------------- dropping the manager
\* The owner drops the Manager.  The struct (test.rs:243-256) has no Drop of
\* its own, so its fields are dropped: the map goes with its tokens, and
\* dropping a CancellationToken does not cancel it.  The tasks hold their
\* own clones of the sender, of the pools and of their token and token
\* counter, and go on.
DropManager ==
  /\ caller = "idle"
  /\ caller' = "dropped"
  /\ job_cts' = [id \in Ids |-> 0]
  /\ UNCHANGED << cfg, jobs, job_counter, pool_ready, pool_queue, db, notifs,
                  settledDone, calls, lastRevs, rx, waits, watch, text >>

NextDrop ==
  \/ Next
  \/ DropManager

SpecDrop == InitDrain /\ [][NextDrop]_vars

\* ------------------------------------------- a database that may fail
\* A set_revisions call in which create_output fails for the identity bad
\* (test.rs:419-423): the `?` returns from the call inside the loop over
\* to_start.  The jobs of to_cancel are cancelled already; the identities
\* the loop has visited before bad (the map iterates in no particular order)
\* are answered or have their job; bad and the identities after it get
\* nothing.
SetRevisionsOutputFails(revs, bad, before) ==
  LET desired == Desired(revs)
      to_cancel == ToCancel(job_cts, desired)
      to_start == ToStart(job_cts, desired)
      hits == CacheHits(db, before)
      misses == Misses(db, before)
      cancelled == CancelJobs(jobs, job_cts, to_cancel)
  IN /\ caller = "idle"
     /\ calls < MaxCalls
     /\ bad \in Misses(db, to_start)
     /\ before \subseteq to_start \ {bad}
     /\ SpawnedJobs + Cardinality(misses) <= MaxJobs
     /\ jobs' = [id \in Ids |->
                  IF id \in misses THEN Append(cancelled[id], NewJob)
                  ELSE cancelled[id]]
     /\ job_cts' = [id \in Ids |->
                     IF id \in to_cancel THEN 0
                     ELSE IF id \in misses THEN Len(jobs[id]) + 1
                     ELSE job_cts[id]]
     /\ notifs' = [id \in Ids |->
                    IF id \in hits
                    THEN Append(notifs[id],
                           Notification(id, 0,
                             Completed(cache_lookup(db, id[1], TestByName(id[2])))))
                    ELSE IF id \in misses
                    THEN Append(notifs[id], Notification(id, Len(jobs[id]) + 1, Enqueued))
                    ELSE notifs[id]]
     /\ job_counter' = JobCounterGetN(job_counter, Cardinality(misses))
     /\ calls' = calls + 1
     /\ lastRevs' = revs
     /\ settledDone' = FALSE
     /\ UNCHANGED << cfg, pool_ready, pool_queue, db, caller, rx, waits, watch, text >>

NextOutput ==
  \/ Next
  \/ \E revs \in SUBSET RevConfigs[cfg] :
       \E bad \in Desired(revs), before \in SUBSET Desired(revs) :
         SetRevisionsOutputFails(revs, bad, before)

SpecOutput == InitDrain /\ [][NextOutput]_vars

\* ------------------------- tests with and without a worktree, warm database
InitMixed == InitOn(MixedConfigs, WarmDb)

SpecMixed == InitMixed /\ [][Next]_vars

\* ------------------------------------------------ every call made twice
\* What is not a set_revisions call: settled() and the steps of the jobs
\* and of their children.
OtherSteps ==
  \/ SettledCall
  \/ SettledReturn
  \/ \E id \in Ids, g \in 1..MaxJobs : TaskStart(id, g)
  \/ \E id \in Ids, g \in 1..MaxJobs : TaskResume(id, g)
  \/ \E id \in Ids, g \in 1..MaxJobs : CheckoutDone(id, g)
  \/ \E id \in Ids, g \in 1..MaxJobs : ChildWaitDone(id, g)
  \/ \E id \in Ids, g \in 1..MaxJobs : CancelObserved(id, g)
  \/ \E id \in Ids, g \in 1..MaxJobs : DrainChildDone(id, g)
  \/ \E id \in Ids, g \in 1..MaxJobs : GraceTimeout(id, g)
  \/ \E id \in Ids, g \in 1..MaxJobs : ChildExit(id, g)
  \/ \E id \in Ids, g \in 1..MaxJobs, s \in {SIGINT, SIGKILL, SIGTERM} : ChildSignaled(id, g, s)

\* The latest call was made once so far.
CalledOnce == calls % 2 = 1

\* The caller makes every set_revisions call a second time with the same
\* revisions, before anything else happens (up to the bound on the calls).
NextTwice ==
  \/ ~CalledOnce /\ \E revs \in SUBSET RevConfigs[cfg] : SetRevisions(revs)
  \/ CalledOnce /\ SetRevisions(lastRevs)
  \/ (~CalledOnce \/ calls = MaxCalls) /\ OtherSteps

SpecTwice == InitMixed /\ [][NextTwice]_vars

\* ------------------------------------------------ the notification stream
\* The configurations with a single identity: all that the manager sends is
\* sent for that identity, so its notifications in order are the stream.
StreamConfigs == {4}

\* Everything sent on result_tx so far, in the order of the sends.
Stream == notifs[CHOOSE id \in Desired(RevConfigs[cfg]) : TRUE]

\* The position of the oldest notification the channel still retains.
Oldest == IF Len(Stream) > ChannelCapacity THEN Len(Stream) - ChannelCapacity + 1 ELSE 1

ManagerFrame ==
  UNCHANGED << cfg, job_cts, jobs, job_counter, pool_ready, pool_queue, db,
               notifs, caller, settledDone, calls, lastRevs, waits, watch, text >>

\* A variant of Subscribe whose receiver starts at the oldest notification
\* the channel retains.
SubscribeFromOldest(s) ==
  /\ ~rx[s].on
  /\ rx' = [rx EXCEPT ![s] = [on |-> TRUE, start |-> Len(Stream),
                              next |-> Oldest, lagged |-> FALSE, got |-> <<>>]]
  /\ ManagerFrame

\* Manager::results (test.rs:440-442): result_tx.subscribe() gives a receiver
\* that starts behind the last notification sent.
Subscribe(s) ==
  /\ ~rx[s].on
  /\ rx' = [rx EXCEPT ![s] = [on |-> TRUE, start |-> Len(Stream),
                              next |-> Len(Stream) + 1, lagged |-> FALSE,
                              got |-> <<>>]]
  /\ ManagerFrame

\* results.recv() returns (test.rs:1011): the next notification, with its
\* position in the stream, or, when the channel has overwritten it,
\* RecvError::Lagged, after which the receiver goes on from the oldest
\* notification retained.
Recv(s) ==
  /\ rx[s].on
  /\ rx[s].next <= Len(Stream)
  /\ IF rx[s].next < Oldest
     THEN rx' = [rx EXCEPT ![s].next = Oldest, ![s].lagged = TRUE]
     ELSE rx' = [rx EXCEPT ![s].next = @ + 1,
                           ![s].got = Append(@, [pos |-> rx[s].next,
                                                 val |-> Stream[rx[s].next]])]
  /\ ManagerFrame

\* The subscribers call results() in a fixed order (they are
\* interchangeable).
MaySubscribe(s) == s = "s1" \/ rx["s1"].on

NextStream ==
  \/ Next /\ Len(Stream') <= MaxSent
  \/ \E s \in Subscribers : MaySubscribe(s) /\ Subscribe(s)
  \/ \E s \in Subscribers : Recv(s)

InitStream == InitWith(StreamConfigs)

SpecStream == InitStream /\ [][NextStream]_vars

\* ------------------------------------------- a manager on an old database
\* The manager is dropped once no job is left and a new one is built with
\* the tests of configuration c, on the same database (Manager::builder
\* takes the database; ManagerBuilder::build starts with an empty map, a
\* zero counter and fresh pools).
Restart(c) ==
  /\ c \in RestartConfigs
  /\ c # cfg
  /\ caller = "idle"
  /\ job_counter = 0
  /\ cfg' = c
  /\ job_cts' = [id \in Ids |-> 0]
  /\ pool_ready' = [k \in Keys |-> PoolConfigs[c][k]]
  /\ pool_queue' = <<>>
  /\ settledDone' = FALSE
  /\ lastRevs' = {}
  /\ UNCHANGED << jobs, job_counter, db, notifs, caller, calls, rx, waits, watch, text >>

InitRestart == InitWith(RestartConfigs)

NextRestart ==
  \/ Next
  \/ \E c \in RestartConfigs : Restart(c)

SpecRestart == InitRestart /\ [][NextRestart]_vars

TypeOK ==
  /\ job_counter \in Nat
  /\ \A id \in Ids : job_cts[id] \in 0..Len(jobs[id])

\* ------------------------------------------------------------ properties
JobRefs == { r \in Ids \X (1..MaxJobs) : r[2] <= Len(jobs[r[1]]) }

Job(r) == jobs[r[1]][r[2]]

\* The kinds of the notifications one job has sent, in order.
JobKinds(id, g) ==
  LET own == SelectSeq(notifs[id], LAMBDA n : n.gen = g)
  IN [i \in 1..Len(own) |-> own[i].status.kind]

\* Number of terminal notifications a job has sent.
NumTerminal(id, g) ==
  Len(SelectSeq(JobKinds(id, g), LAMBDA k : k \in TerminalKinds))

HasKind(id, kinds) ==
  \E i \in 1..Len(notifs[id]) : notifs[id][i].status.kind \in kinds

\* A job of the identity ran to Completed.
JobCompleted(id) ==
  \E i \in 1..Len(notifs[id]) :
    notifs[id][i].gen > 0 /\ notifs[id][i].status.kind = "Completed"

Worktrees == SeqToSet(PoolConfigs[cfg]["Worktree"])

\* The jobs that own a worktree, or work in it.
WorktreeUsers(w) ==
  { r \in JobRefs :
      \/ w \in SeqToSet(Job(r).res["Worktree"])
      \/ Job(r).pc \in {"started", "running", "draining"} /\ Job(r).cwd = w }

\* C1: no worktree is held, or worked in, by two jobs at the same time, and
\* a worktree some job holds is not on the pool's ready list.
C1_WorktreeExclusive ==
  \A w \in Worktrees :
    /\ Cardinality(WorktreeUsers(w)) <= 1
    /\ WorktreeUsers(w) # {} => w \notin SeqToSet(pool_ready["Worktree"])

\* A worktree that one job used and gave back is now held by another job.
C1_Witness ==
  \E a \in JobRefs, b \in JobRefs :
    /\ a # b
    /\ Job(a).pc = "done" /\ Job(a).cwd \in Worktrees
    /\ Job(b).pc \in {"started", "running", "draining"} /\ Job(b).cwd = Job(a).cwd

\* C2 as claimed: a job has sent exactly one terminal notification once its
\* task has finished, and never two.
C2_ExactlyOneTerminal ==
  \A r \in JobRefs :
    /\ NumTerminal(r[1], r[2]) <= 1
    /\ Job(r).pc = "done" => NumTerminal(r[1], r[2]) = 1

\* C2 amended: a job never sends two terminal notifications; a finished job
\* has sent exactly one if it had sent Started, and none if it was cancelled
\* before it acquired its resources; an unfinished job has sent none.
C2_OneTerminalIfStarted ==
  \A r \in JobRefs :
    LET kinds == JobKinds(r[1], r[2])
        started == \E i \in 1..Len(kinds) : kinds[i] = "Started"
    IN /\ NumTerminal(r[1], r[2]) <= 1
       /\ Job(r).pc = "done" /\ started => NumTerminal(r[1], r[2]) = 1
       /\ Job(r).pc = "done" /\ ~started => NumTerminal(r[1], r[2]) = 0
       /\ Job(r).pc # "done" => NumTerminal(r[1], r[2]) = 0

\* One job has finished with its terminal notification, another has finished
\* without having started.
C2_Witness ==
  \E a \in JobRefs, b \in JobRefs :
    /\ Job(a).pc = "done" /\ NumTerminal(a[1], a[2]) = 1
    /\ Job(b).pc = "done" /\ JobKinds(b[1], b[2]) = << "Enqueued" >>

\* C3 as claimed: in the notifications of one identity that come from its
\* jobs, every Started directly follows an Enqueued and every terminal
\* notification directly follows a Started.
C3_OrderPerIdentity ==
  \A id \in Ids :
    LET log == SelectSeq(notifs[id], LAMBDA n : n.gen > 0)
    IN \A i \in 1..Len(log) :
         /\ log[i].status.kind = "Started" =>
              i > 1 /\ log[i - 1].status.kind = "Enqueued"
         /\ log[i].status.kind \in TerminalKinds =>
              i > 1 /\ log[i - 1].status.kind = "Started"

\* C3 amended: the notifications of one job are, in order, Enqueued, then
\* Started, then one terminal notification, or a beginning of that.
C3_OrderPerJob ==
  \A r \in JobRefs :
    LET kinds == JobKinds(r[1], r[2])
    IN /\ Len(kinds) \in 1..3
       /\ kinds[1] = "Enqueued"
       /\ Len(kinds) >= 2 => kinds[2] = "Started"
       /\ Len(kinds) = 3 => kinds[3] \in TerminalKinds

\* An identity was removed and added again while its earlier job was
\* shutting down, and both jobs went through all their notifications.
C3_Witness ==
  \E id \in Ids :
    /\ Len(jobs[id]) >= 2
    /\ Len(JobKinds(id, 1)) = 3
    /\ Len(JobKinds(id, 2)) = 3
    /\ \E i \in 1..Len(notifs[id]), j \in 1..Len(notifs[id]) :
         i < j /\ notifs[id][i].gen = 2 /\ notifs[id][j].gen = 1

\* The states of a job that has not yet taken its resources.
BeforeAcquired == {"spawned", "waiting", "granted"}

C5_Reconcile ==
  [][calls' = calls + 1 =>
       \A id \in Ids :
         /\ job_cts[id] # 0 /\ id \notin Desired(lastRevs') =>
              job_cts'[id] = 0 /\ jobs'[id][job_cts[id]].ct
         /\ job_cts'[id] # 0 => id \in Desired(lastRevs')
         /\ job_cts[id] # 0 /\ id \in Desired(lastRevs') =>
              job_cts'[id] = job_cts[id] /\ jobs'[id] = jobs[id]]_vars

\* One identity was cancelled and removed while another one kept its job.
C5_Witness ==
  \E a \in Ids, b \in Ids :
    /\ job_cts[a] = 0 /\ Len(jobs[a]) = 1 /\ jobs[a][1].ct
    /\ job_cts[b] = 1 /\ ~jobs[b][1].ct
    /\ calls >= 2

\* The identities that were in the desired set of some call: an identity
\* entering the desired set gets a notification at once.
EverDesired == { id \in Ids : notifs[id] # <<>> }

\* The identities some call has cancelled and removed from the map.
EverRemoved == { id \in Ids : \E g \in 1..Len(jobs[id]) : jobs[id][g].ct }

CompletedOrErrorIds == { id \in Ids : HasKind(id, {"Completed", "Error"}) }

CancelledIds == { id \in Ids : HasKind(id, {"Canceled"}) }

\* C6 as claimed: once settled, Completed or Error went to the desired
\* identities that were not cancelled, and Cancelled to the identities of an
\* earlier desired set that are not desired any more.
C6_SettledSetsAsClaimed ==
  settledDone =>
    /\ CompletedOrErrorIds = Desired(lastRevs) \ CancelledIds
    /\ CancelledIds = EverDesired \ Desired(lastRevs)

\* C6 amended: once settled, every desired identity has received Completed
\* or Error, and every identity that received Cancelled was cancelled and
\* removed from the map by some call.
C6_SettledSets ==
  settledDone =>
    /\ Desired(lastRevs) \subseteq CompletedOrErrorIds
    /\ CancelledIds \subseteq EverRemoved

\* Settled with one identity cancelled and another one completed.
C6_Witness ==
  /\ settledDone
  /\ CancelledIds # {}
  /\ Desired(lastRevs) # {}
  /\ calls >= 2

\* C7: after set_revisions(empty) and a settled() that returned, nothing is
\* notified before the next set_revisions call.
C7_QuietAfterSettled ==
  [][settledDone /\ lastRevs = {} => notifs' = notifs \/ calls' # calls]_vars

\* settled() returned after set_revisions(empty) had cancelled a job that
\* was started.
C7_Witness ==
  /\ settledDone
  /\ lastRevs = {}
  /\ CancelledIds # {}

\* C8: the job counter is the number of unfinished jobs, and settled() has
\* not returned while a job is unfinished.
C8_CounterCountsJobs ==
  /\ job_counter = Cardinality({ r \in JobRefs : Job(r).pc # "done" })
  /\ settledDone => \A r \in JobRefs : Job(r).pc = "done"

\* settled() is blocked while a child runs that nobody cancelled.
C8_Witness ==
  /\ caller = "settling"
  /\ \E r \in JobRefs : Job(r).pc = "running" /\ Job(r).child = "alive" /\ ~Job(r).ct

\* C9: set_revisions answers a cache hit with one Completed notification
\* carrying the cached exit code and nothing else: no job, no map entry,
\* and the counter grows by the number of jobs spawned only.
C9_CacheHit ==
  [][calls' = calls + 1 =>
       /\ \A id \in Desired(lastRevs') :
            job_cts[id] = 0 /\ cache_lookup(db, id[1], TestByName(id[2])) # -1 =>
              /\ notifs'[id] = Append(notifs[id],
                   Notification(id, 0,
                     Completed(cache_lookup(db, id[1], TestByName(id[2])))))
              /\ jobs'[id] = jobs[id]
              /\ job_cts'[id] = 0
       /\ job_counter' - job_counter =
            Cardinality({ id \in Ids : Len(jobs'[id]) > Len(jobs[id]) })
       /\ pool_ready' = pool_ready /\ pool_queue' = pool_queue /\ db' = db]_vars

\* A commit whose result is cached was answered by set_revisions while
\* another job was running.
C9_Witness ==
  \E id \in Ids :
    /\ \E i \in 1..Len(notifs[id]) : notifs[id][i].gen = 0
    /\ job_counter > 0

\* The identities for which a call spawns a job.
NewlyDesired == { id \in Desired(lastRevs') : job_cts[id] = 0 }

\* C10: the cache policy decides the cache key.  A test without caching gets
\* a job each time it enters the desired set; a by-commit test is answered
\* from the cache iff a job of the same commit completed; a by-tree test iff
\* a job of a commit with the same tree completed.
C10_CachePolicy ==
  [][calls' = calls + 1 =>
       \A id \in NewlyDesired :
         LET policy == TestByName(id[2]).cache_policy
             spawned == Len(jobs'[id]) = Len(jobs[id]) + 1
         IN /\ policy = "NoCaching" => spawned
            /\ policy = "ByCommit" => (spawned <=> ~JobCompleted(id))
            /\ policy = "ByTree" =>
                 (spawned <=> ~\E c \in Commits :
                                 /\ commit_tree(c) = commit_tree(id[1])
                                 /\ JobCompleted(<< c, id[2] >>))]_vars

\* By-tree: a commit was answered from the result of another commit with
\* the same tree, without a job of its own.
C10_Witness ==
  \E a \in Ids, b \in Ids :
    /\ a[1] # b[1] /\ a[2] = b[2]
    /\ JobCompleted(a)
    /\ jobs[b] = <<>>
    /\ \E i \in 1..Len(notifs[b]) :
         notifs[b][i].gen = 0 /\ notifs[b][i].status = Completed(ExitCodeOf[a[1]])

\* Without caching: an identity that completed got a second job when it
\* entered the desired set again.
C10_WitnessNoCaching ==
  \E id \in Ids :
    /\ id \in Desired({id[1]})
    /\ TestByName(id[2]).cache_policy = "NoCaching"
    /\ JobCompleted(id)
    /\ Len(jobs[id]) = 2

\* The identities the configuration can produce.
ConfigIds == Desired(Commits)

\* The key under which a job of the identity records its result.
ResultKey(id) == DbKey(storage_hash(id[1], TestByName(id[2])), TestByName(id[2]))

\* The notification a step has appended for the identity, if it appended one.
Appended(id) == notifs'[id][Len(notifs'[id])]

Appends(id) == Len(notifs'[id]) = Len(notifs[id]) + 1

\* C11: the database is written only by a job that ends in Completed, under
\* that job's key and with its exit code; a job that ends in Error or in
\* Canceled leaves the database as it is; so a key holds a result only if a
\* job with that key has ended in Completed.
C11_OnlyCompletedRecorded ==
  /\ [][/\ \A k \in DbKeys :
             db'[k] # db[k] =>
               \E id \in ConfigIds :
                 /\ ResultKey(id) = k
                 /\ Appends(id)
                 /\ Appended(id).gen > 0
                 /\ Appended(id).status = Completed(db'[k])
        /\ \A id \in ConfigIds :
             Appends(id) /\ Appended(id).status.kind \in {"Error", "Canceled"} =>
               db' = db]_vars
  /\ [](\A k \in DbKeys :
          db[k] # -1 => \E id \in ConfigIds : ResultKey(id) = k /\ JobCompleted(id))

\* A cancelled job whose child exited with its exit code after the SIGINT
\* has ended in Canceled, and nothing is recorded under its key.
C11_Witness ==
  \E r \in JobRefs :
    /\ Job(r).pc = "done"
    /\ Job(r).sigs = << SIGINT >>
    /\ Job(r).child = "exited"
    /\ JobKinds(r[1], r[2]) = << "Enqueued", "Started", "Canceled" >>
    /\ db[ResultKey(r[1])] = -1

\* A job of the identity has ended in Error or in Canceled.
FailedJob(id) ==
  \E i \in 1..Len(notifs[id]) :
    notifs[id][i].gen > 0 /\ notifs[id][i].status.kind \in {"Error", "Canceled"}

\* The step spawns a job for the identity.
Spawns(id) ==
  /\ Len(jobs'[id]) = Len(jobs[id]) + 1
  /\ jobs'[id][Len(jobs'[id])] = NewJob
  /\ job_cts'[id] = Len(jobs'[id])

\* C12 as claimed: once a job of an identity has ended in Error or Canceled
\* and no job of it is running, every set_revisions call that desires the
\* identity spawns a job for it.
C12_RerunsAlways ==
  [][calls' = calls + 1 =>
       \A id \in Desired(lastRevs') :
         FailedJob(id) /\ (\A g \in 1..Len(jobs[id]) : jobs[id][g].pc = "done") =>
           Spawns(id)]_vars

\* C12 amended: once a job of an identity has ended in Error or Canceled, a
\* set_revisions call that desires the identity spawns a job for it exactly
\* when the identity has no entry in the map and no result is cached under
\* its key.
C12_RerunsWhenRemoved ==
  [][calls' = calls + 1 =>
       \A id \in Desired(lastRevs') :
         FailedJob(id) =>
           (Spawns(id) <=>
              job_cts[id] = 0 /\ cache_lookup(db, id[1], TestByName(id[2])) = -1)]_vars

\* An identity whose first job ended in Error was removed and added again,
\* and the child of its second job runs.
C12_Witness ==
  \E id \in Ids :
    /\ Len(jobs[id]) >= 2
    /\ JobKinds(id, 1) = << "Enqueued", "Started", "Error" >>
    /\ jobs[id][2].pc = "running" /\ jobs[id][2].child = "alive"

\* The cache-hit answer of a set_revisions call to the identity.
Hit(id) ==
  /\ Appends(id)
  /\ Appended(id).gen = 0
  /\ Appended(id).status.kind = "Completed"
  /\ jobs'[id] = jobs[id]

\* A job of a test of this name and config hash ran to Completed on this
\* content hash, with this exit code.
CompletedRun(hash, name, config_hash, code) ==
  \E c \in Commits :
    /\ << c, name >> \in ConfigIds
    /\ CacheHash(c, TestByName(name)) = hash
    /\ \E i \in 1..Len(notifs[<< c, name >>]) :
         LET n == notifs[<< c, name >>][i]
         IN /\ n.gen > 0
            /\ n.status = Completed(code)
            /\ n.config_hash = config_hash

\* C13: a set_revisions call answers an identity from the cache iff a job of
\* a test with the same name and the same config hash ran to Completed on
\* the same content hash, and the answer carries the exit code of such a
\* run; otherwise, also when only the config hash differs, it spawns a job.
C13_HitNeedsSameConfig ==
  [][calls' = calls + 1 =>
       \A id \in NewlyDesired :
         LET test == TestByName(id[2])
             hash == CacheHash(id[1], test)
         IN /\ Hit(id) <=>
                 \E code \in 0..1 : CompletedRun(hash, id[2], test.config_hash, code)
            /\ Hit(id) =>
                 CompletedRun(hash, id[2], test.config_hash, Appended(id).status.code)
            /\ ~Hit(id) => Spawns(id)]_vars

\* The test completed under one configuration; under the changed one the
\* same commit got a second job, whose child runs.
C13_Witness ==
  \E id \in Ids :
    /\ Len(jobs[id]) = 2
    /\ \E i \in 1..Len(notifs[id]) :
         /\ notifs[id][i].gen = 1
         /\ notifs[id][i].status.kind = "Completed"
         /\ notifs[id][i].config_hash # TestByName(id[2]).config_hash
    /\ jobs[id][2].pc = "running" /\ jobs[id][2].child = "alive"

\* Back under the first configuration, the commit is answered from the
\* cache.
C13_WitnessHit ==
  \E id \in Ids :
    /\ Len(jobs[id]) = 2
    /\ \E i \in 1..Len(notifs[id]), j \in 1..Len(notifs[id]) :
         /\ i < j
         /\ notifs[id][i].gen = 2
         /\ notifs[id][j].gen = 0
         /\ notifs[id][j].config_hash # notifs[id][i].config_hash

RECURSIVE SumHeld(_, _)
SumHeld(k, refs) ==
  IF refs = {} THEN 0
  ELSE LET r == CHOOSE x \in refs : TRUE
       IN Len(Job(r).res[k]) + SumHeld(k, refs \ {r})

\* The population of a key.
Population(k) == Len(PoolConfigs[cfg][k])

\* The jobs that have sent Started and have not given their resources back.
StartedJobs == { r \in JobRefs : Job(r).pc \in {"started", "running", "draining"} }

\* The jobs whose task has not taken its resources yet.
EnqueuedJobs == { r \in JobRefs : Job(r).pc \in BeforeAcquired }

\* C14: for every key, the instances held by jobs and the ready instances
\* add up to the population, no instance is held twice, a started job holds
\* what its test needs, so the started jobs hold at most the population; a
\* job that has not taken its resources has sent Enqueued and nothing else.
C14_WithinPopulation ==
  /\ \A k \in Keys :
       /\ SumHeld(k, JobRefs) + Len(pool_ready[k]) = Population(k)
       /\ SumHeld(k, StartedJobs) <= Population(k)
       /\ \A r \in JobRefs, q \in JobRefs :
            r # q => SeqToSet(Job(r).res[k]) \cap SeqToSet(Job(q).res[k]) = {}
       /\ \A r \in JobRefs :
            /\ SeqToSet(Job(r).res[k]) \cap SeqToSet(pool_ready[k]) = {}
            /\ Cardinality(SeqToSet(Job(r).res[k])) = Len(Job(r).res[k])
  /\ \A r \in StartedJobs :
       \A k \in Keys : Len(Job(r).res[k]) = JobTest(r[1]).needs_resources[k]
  /\ \A r \in EnqueuedJobs : JobKinds(r[1], r[2]) = << "Enqueued" >>

\* The tokens, not the worktrees, hold a job back: one child runs with two
\* of the three tokens, a worktree is ready, and the other job is waiting.
C14_Witness ==
  \E r \in JobRefs, q \in JobRefs :
    /\ Job(r).pc = "running" /\ Job(r).child = "alive"
    /\ Len(Job(r).res["tok"]) = 2
    /\ Job(q).pc = "waiting" /\ ~Job(q).ct
    /\ pool_ready["Worktree"] # <<>>
    /\ Len(pool_ready["tok"]) = 1

\* C15: when the child of a job that is not cancelled has ended and the job
\* finishes, the job sends Completed with the exit code and records it under
\* its key if the child exited, and sends Error naming the signal and
\* records nothing if a signal terminated the child.
C15_ChildEndStatus ==
  [][\A r \in JobRefs :
       /\ Job(r).pc = "running"
       /\ ~Job(r).ct
       /\ Job(r).child \in {"exited", "signaled"}
       /\ jobs'[r[1]][r[2]].pc = "done"
       => /\ Appends(r[1])
          /\ Appended(r[1]).gen = r[2]
          /\ IF Job(r).child = "exited"
             THEN /\ Appended(r[1]).status = Completed(ExitCodeOf[r[1][1]])
                  /\ db' = [db EXCEPT ![ResultKey(r[1])] = ExitCodeOf[r[1][1]]]
             ELSE /\ Appended(r[1]).status = Error("terminated by signal", Job(r).code)
                  /\ db' = db]_vars

\* A child that nobody cancelled was terminated by SIGTERM: its job ended in
\* Error and nothing is recorded, while the job of the other commit ran to
\* Completed and its exit code is recorded.
C15_Witness ==
  \E r \in JobRefs, q \in JobRefs :
    /\ Job(r).pc = "done" /\ ~Job(r).ct /\ Job(r).child = "signaled"
    /\ \E i \in 1..Len(notifs[r[1]]) :
         notifs[r[1]][i].status = Error("terminated by signal", SIGTERM)
    /\ db[ResultKey(r[1])] = -1
    /\ Job(q).pc = "done" /\ ~Job(q).ct /\ Job(q).child = "exited"
    /\ db[ResultKey(q[1])] = ExitCodeOf[q[1][1]]

\* C16 as claimed: the first signal a supervisor delivers is SIGINT, to the
\* running child of a cancelled job; SIGKILL is delivered only after SIGINT
\* and only to a child that has not ended; and a job that has delivered both
\* ends in Canceled.
C16_SigintThenSigkill ==
  [][\A r \in JobRefs :
       LET old == Job(r)
           new == jobs'[r[1]][r[2]]
       IN new.sigs # old.sigs =>
            /\ old.sigs = <<>> =>
                 new.sigs = << SIGINT >> /\ old.ct /\ old.pc = "running"
            /\ old.sigs # <<>> =>
                 /\ old.sigs = << SIGINT >>
                 /\ new.sigs = << SIGINT, SIGKILL >>
                 /\ old.child = "alive"
                 /\ new.pc = "done"
                 /\ Appends(r[1])
                 /\ Appended(r[1]).gen = r[2]
                 /\ Appended(r[1]).status = Canceled]_vars

\* C17: a job whose test needs a worktree never works in the origin
\* repository; its child exists only after its commit was checked out, with
\* the worktree the job acquired as working directory, which the job owns
\* for as long as it works in it; and when the checkout or the spawn fails
\* the job ends in Error without a child.
C17_RunsInOwnWorktree ==
  /\ [](\A r \in JobRefs :
          NeedsWorktree(r[1]) =>
            /\ Job(r).cwd # "origin"
            /\ Job(r).child # "none" =>
                 Job(r).cwd \in Worktrees /\ Job(r).co = r[1][1]
            /\ Job(r).pc \in {"started", "running", "draining"} =>
                 Job(r).res["Worktree"] = << Job(r).cwd >>
            /\ Job(r).co = "none" => Job(r).child = "none")
  /\ [][\A r \in JobRefs :
          /\ NeedsWorktree(r[1])
          /\ Job(r).pc = "started"
          /\ jobs'[r[1]][r[2]].pc = "done"
          => /\ jobs'[r[1]][r[2]].child = "none"
             /\ Appends(r[1])
             /\ Appended(r[1]).gen = r[2]
             /\ Appended(r[1]).status.kind = "Error"]_vars

\* One job's checkout failed and it ended in Error without a child; the
\* child of another job runs in the worktree, which holds its commit.
C17_Witness ==
  \E r \in JobRefs, q \in JobRefs :
    /\ NeedsWorktree(r[1]) /\ NeedsWorktree(q[1])
    /\ Job(r).pc = "done" /\ Job(r).child = "none"
    /\ \E i \in 1..Len(notifs[r[1]]) :
         notifs[r[1]][i].status = Error("checkout failed", 0)
    /\ Job(q).pc = "running" /\ Job(q).child = "alive"
    /\ Job(q).cwd \in Worktrees /\ Job(q).co = q[1][1]

\* The jobs of the tests that need no worktree.
OriginJobs == { r \in JobRefs : ~NeedsWorktree(r[1]) }

\* What holds of a job that needs no worktree wherever it is: it owns no
\* worktree, checks nothing out, and its child runs in the origin repository.
OriginJobFrame(r) ==
  /\ Job(r).res["Worktree"] = <<>>
  /\ Job(r).cwd \in {"none", "origin"}
  /\ Job(r).co = "none"
  /\ Job(r).pc # "started"
  /\ Job(r).child # "none" => Job(r).cwd = "origin"

EnvValues(e, name) == { p[2] : p \in { q \in e : q[1] = name } }

\* The tokens an environment hands over for a key, over all indices.
EnvTokens(e, k) ==
  UNION { EnvValues(e, ResourceVar(k, i)) : i \in 0..Population(k) }

\* C19: the environment of a spawned child gives LCI_COMMIT the commit under
\* test and LCI_ORIGIN the origin path; for a token key of which the test
\* claims n tokens it gives LCI_RESOURCE_<key>_<i> one value for each i < n,
\* these being n different tokens of the key's population (the ones the job
\* holds), and no value for i >= n; and it holds no other variable.
C19_ChildEnv ==
  \A r \in JobRefs :
    Job(r).child # "none" =>
      LET e == Job(r).env
          need == JobTest(r[1]).needs_resources
      IN /\ EnvValues(e, EnvVar("LCI_COMMIT")) = { r[1][1] }
         /\ EnvValues(e, EnvVar("LCI_ORIGIN")) = { "origin" }
         /\ \A k \in TokenKeys :
              /\ \A i \in 0..Population(k) :
                   IF i < need[k]
                   THEN /\ Cardinality(EnvValues(e, ResourceVar(k, i))) = 1
                        /\ EnvValues(e, ResourceVar(k, i)) \subseteq
                             SeqToSet(PoolConfigs[cfg][k])
                        /\ Job(r).pc \in {"running", "draining"} =>
                             EnvValues(e, ResourceVar(k, i)) = { Job(r).res[k][i + 1] }
                   ELSE EnvValues(e, ResourceVar(k, i)) = {}
              /\ Cardinality(EnvTokens(e, k)) = need[k]
         /\ \A p \in e :
              \/ p[1] \in { EnvVar("LCI_COMMIT"), EnvVar("LCI_ORIGIN") }
              \/ \E k \in TokenKeys :
                   \E i \in 0..Population(k) : p[1] = ResourceVar(k, i)

\* A child runs with two tokens in its environment, the first of them a
\* token that no job held at first (the ready list was reordered by an
\* earlier job's release), and with no variable for the unclaimed key.
C19_Witness ==
  \E r \in JobRefs :
    /\ Job(r).pc = "running" /\ Job(r).child = "alive"
    /\ << ResourceVar("tok", 0), "k3" >> \in Job(r).env
    /\ Cardinality(EnvTokens(Job(r).env, "tok")) = 2
    /\ Population("other") = 1
    /\ EnvTokens(Job(r).env, "other") = {}

\* A job of the identity has sent Completed with the exit code of the child
\* that ran the identity's commit.
CompletedWithOwnCode(id) ==
  \E i \in 1..Len(notifs[id]) :
    /\ notifs[id][i].gen > 0
    /\ notifs[id][i].status = Completed(ExitCodeOf[id[1]])

\* C20: with a desired set that stays fixed, requests that fit the pools,
\* and children that are spawned and exit, every desired identity
\* eventually gets Completed with its child's exit code.
C20_AllCompleted ==
  \A id \in Ids :
    (id \in Desired(lastRevs)) ~> CompletedWithOwnCode(id)

\* Two commits were desired with a single worktree, and both have got
\* Completed from a job of their own.
C20_Witness ==
  \E a \in Ids, b \in Ids :
    /\ a # b
    /\ {a, b} \subseteq Desired(lastRevs)
    /\ NeedsWorktree(a) /\ NeedsWorktree(b)
    /\ Cardinality(Worktrees) = 1
    /\ CompletedWithOwnCode(a) /\ CompletedWithOwnCode(b)
    /\ settledDone

\* Every supervisor task has finished, so settled() completes.
AllTasksDone ==
  /\ job_counter = 0
  /\ \A r \in JobRefs : Job(r).pc = "done"

\* The job ended because a signal could not be delivered to its child.
SignalFailed(r) ==
  \E i \in 1..Len(notifs[r[1]]) :
    /\ notifs[r[1]][i].gen = r[2]
    /\ notifs[r[1]][i].status = Error("couldn't interrupt child job", 0)

C22_DropCancels ==
  [][caller' = "dropped" /\ caller # "dropped" =>
       \A id \in Ids :
         job_cts[id] # 0 => jobs'[id][job_cts[id]].ct]_vars

\* The identities a call neither answers from the cache nor gives a job.
LeftOut == { id \in NewlyDesired : ~Hit(id) /\ ~Spawns(id) }

\* C23 as claimed: a set_revisions call answers from the cache, or gives a
\* job to, every identity that enters the desired set, but for the one
\* whose output could not be opened.
C23_OthersStarted ==
  [][calls' = calls + 1 => Cardinality(LeftOut) <= 1]_vars

\* The call repeats the one before it, and nothing has happened in between.
RepeatedCall == CalledOnce /\ calls' = calls + 1

\* A repeated call cancels nothing, spawns nothing and leaves the map alone.
NoJobTouched ==
  /\ jobs' = jobs
  /\ job_cts' = job_cts
  /\ job_counter' = job_counter
  /\ UNCHANGED << pool_ready, pool_queue, db >>

\* C24 as claimed: a set_revisions call that repeats the call before it,
\* with nothing in between, cancels no job, spawns no job, leaves the map
\* as it is and sends no notification.
C24_RepeatIsSilent ==
  [][RepeatedCall => NoJobTouched /\ notifs' = notifs]_vars

\* C24 amended: such a call cancels no job, spawns no job and leaves the map
\* as it is; it sends one notification, Completed with the cached exit code,
\* for every desired identity that has no entry in the map and a cached
\* result, and nothing else.
C24_RepeatRenotifiesHits ==
  [][RepeatedCall =>
       /\ NoJobTouched
       /\ \A id \in Ids :
            IF /\ id \in Desired(lastRevs)
               /\ job_cts[id] = 0
               /\ cache_lookup(db, id[1], TestByName(id[2])) # -1
            THEN notifs'[id] = Append(notifs[id],
                   Notification(id, 0,
                     Completed(cache_lookup(db, id[1], TestByName(id[2])))))
            ELSE notifs'[id] = notifs[id]]_vars

\* The call was repeated: the identity with a cached result was answered
\* twice, and the job of the other identity is as the first call left it.
C24_Witness ==
  /\ calls = 2
  /\ \E a \in Ids, b \in Ids :
       /\ {a, b} \subseteq Desired(lastRevs)
       /\ Len(notifs[a]) = 2
       /\ notifs[a][1] = notifs[a][2]
       /\ notifs[a][1].gen = 0
       /\ job_cts[a] = 0
       /\ job_cts[b] = 1
       /\ jobs[b] = << NewJob >>
       /\ JobKinds(b, 1) = << "Enqueued" >>

\* The jobs of an identity whose supervisor task has not finished.
Unfinished(id) == { g \in 1..Len(jobs[id]) : jobs[id][g].pc # "done" }

\* C25 as claimed: an identity has at most one entry in the map and at most
\* one supervisor task that has not finished.
C25_OneUnfinishedTask ==
  \A id \in Ids :
    /\ job_cts[id] \in 0..Len(jobs[id])
    /\ Cardinality(Unfinished(id)) <= 1

\* C25 amended: an identity has at most one entry in the map, which holds
\* the token of its latest job; every other job of the identity is
\* cancelled, so at most one of its unfinished supervisor tasks is not
\* cancelled, and the unfinished tasks beside it are shutting down.
C25_OneLiveJob ==
  \A id \in Ids :
    /\ job_cts[id] \in {0, Len(jobs[id])}
    /\ \A g \in 1..Len(jobs[id]) : ~jobs[id][g].ct <=> job_cts[id] = g
    /\ Cardinality({ g \in Unfinished(id) : ~jobs[id][g].ct }) <= 1

\* A commit was removed and added again: its first job has interrupted its
\* child and waits for it, its second job waits for the worktree.
C25_Witness ==
  \E id \in Ids :
    /\ Len(jobs[id]) = 2
    /\ job_cts[id] = 2
    /\ jobs[id][1].pc = "draining" /\ jobs[id][1].child = "alive"
    /\ jobs[id][2].pc = "waiting" /\ ~jobs[id][2].ct

\* The step ends a job that was cancelled before it took its resources.
EndsUnstarted(r) ==
  /\ Job(r).ct
  /\ Job(r).pc \in BeforeAcquired
  /\ jobs'[r[1]][r[2]].pc = "done"

\* C26 as claimed: a job that sees its cancellation while it waits for its
\* resources sends Cancelled and ends.
C26_WaitingSendsCancelled ==
  [][\A r \in JobRefs :
       EndsUnstarted(r) =>
         /\ Appends(r[1])
         /\ Appended(r[1]).gen = r[2]
         /\ Appended(r[1]).status = Canceled]_vars

\* C26 amended: a job that sees its cancellation while it waits for its
\* resources ends without sending anything: Enqueued stays its only
\* notification, and its counter token is dropped; Cancelled comes only
\* from jobs that had sent Started.
C26_WaitingEndsSilently ==
  /\ [][\A r \in JobRefs :
          EndsUnstarted(r) =>
            /\ notifs' = notifs
            /\ JobKinds(r[1], r[2]) = << "Enqueued" >>
            /\ job_counter' = job_counter - 1
            /\ db' = db]_vars
  /\ [](\A r \in JobRefs :
          (\E i \in 1..Len(JobKinds(r[1], r[2])) : JobKinds(r[1], r[2])[i] = "Canceled")
            => JobKinds(r[1], r[2]) = << "Enqueued", "Started", "Canceled" >>)

\* After set_revisions(empty) with one job running and one waiting, all has
\* settled: the job that ran, whose child exited on the SIGINT, has sent
\* Cancelled; the job that waited has sent Enqueued only.
C26_Witness ==
  /\ settledDone
  /\ lastRevs = {}
  /\ \E r \in JobRefs, q \in JobRefs :
       /\ r[1] # q[1]
       /\ Job(r).sigs = << SIGINT >> /\ Job(r).child = "exited"
       /\ JobKinds(r[1], r[2]) = << "Enqueued", "Started", "Canceled" >>
       /\ Job(q).ct /\ Job(q).pc = "done" /\ Job(q).child = "none"
       /\ notifs[q[1]] = << Notification(q[1], q[2], Enqueued) >>

\* What a subscriber has received of the notifications sent after position m.
ReceivedAfter(s, m) == SelectSeq(rx[s].got, LAMBDA e : e.pos > m)

Max(a, b) == IF a >= b THEN a ELSE b

Min(a, b) == IF a <= b THEN a ELSE b

\* C27: a subscriber receives only notifications sent after it subscribed,
\* each as it was sent and in the order of the sends; one that did not lag
\* has missed none of them; and of the notifications sent after both of two
\* subscribers that did not lag had subscribed, both have received the same
\* ones in the same order, as far as both have read.
C27_SameOrder ==
  /\ \A s \in Subscribers :
       LET got == rx[s].got
       IN /\ \A i \in 1..Len(got) :
               /\ got[i].pos > rx[s].start
               /\ got[i].pos <= Len(Stream)
               /\ got[i].val = Stream[got[i].pos]
               /\ i > 1 => got[i - 1].pos < got[i].pos
               /\ ~rx[s].lagged => got[i].pos = rx[s].start + i
  /\ \A s \in Subscribers, t \in Subscribers :
       rx[s].on /\ rx[t].on /\ ~rx[s].lagged /\ ~rx[t].lagged =>
         LET m == Max(rx[s].start, rx[t].start)
             a == ReceivedAfter(s, m)
             b == ReceivedAfter(t, m)
         IN \A i \in 1..Min(Len(a), Len(b)) : a[i] = b[i]

\* Two subscribers that did not lag, the second of which subscribed after
\* a notification the first has received, have both received the two
\* notifications sent after that.
C27_Witness ==
  /\ rx["s1"].on /\ rx["s2"].on
  /\ ~rx["s1"].lagged /\ ~rx["s2"].lagged
  /\ rx["s1"].start < rx["s2"].start
  /\ Len(rx["s1"].got) > Len(rx["s2"].got)
  /\ Len(rx["s2"].got) >= 2

\* C28: whatever the subscribers do (none has subscribed, one has lagged
\* and lost notifications), a step of a subscriber changes nothing of the
\* manager and its jobs; every job that finishes has dropped its counter
\* token and its resources, so the counter is zero and settled() completes
\* once all jobs have finished; every job sends Enqueued, Started and its
\* terminal status in that order; and a job that ended in Completed has
\* recorded its exit code.
C28_JobsIgnoreSubscribers ==
  /\ [][rx' # rx => ManagerFrame]_vars
  /\ [](/\ job_counter = Cardinality({ r \in JobRefs : Job(r).pc # "done" })
        /\ \A r \in JobRefs :
             LET kinds == JobKinds(r[1], r[2])
             IN /\ Job(r).pc = "done" => Job(r).res = NoRes
                /\ Len(kinds) \in 1..3
                /\ kinds[1] = "Enqueued"
                /\ Len(kinds) >= 2 => kinds[2] = "Started"
                /\ Len(kinds) = 3 => kinds[3] \in TerminalKinds /\ Job(r).pc = "done"
                /\ Len(kinds) = 3 /\ kinds[3] = "Completed" =>
                     db[ResultKey(r[1])] = ExitCodeOf[r[1][1]]
        /\ caller = "settling" /\ (\A r \in JobRefs : Job(r).pc = "done") =>
             job_counter = 0)

\* A job ran to Completed and recorded its result, and settled() returned,
\* while one subscriber had lagged and lost notifications and the other had
\* not subscribed.
C28_Witness ==
  /\ settledDone
  /\ rx["s1"].on /\ rx["s1"].lagged
  /\ ~rx["s2"].on
  /\ \E r \in JobRefs :
       /\ JobKinds(r[1], r[2]) = << "Enqueued", "Started", "Completed" >>
       /\ db[ResultKey(r[1])] = ExitCodeOf[r[1][1]]

\* The same without any subscriber.
C28_WitnessNoSubscriber ==
  /\ settledDone
  /\ \A s \in Subscribers : ~rx[s].on
  /\ \E r \in JobRefs :
       /\ JobKinds(r[1], r[2]) = << "Enqueued", "Started", "Completed" >>
       /\ db[ResultKey(r[1])] = ExitCodeOf[r[1][1]]

\* The last notification a job has sent.
LastStatus(r) ==
  LET own == SelectSeq(notifs[r[1]], LAMBDA n : n.gen = r[2])
  IN own[Len(own)].status

\* C29: the step that ends a supervisor task, on whatever path, leaves the
\* job without resources, and every instance it held is on the ready list or
\* was handed to a job that waited for it; at all times a finished job holds
\* nothing and, for each key, the ready instances and the instances held
\* add up to the population.
C29_ReleasedOnEveryExit ==
  /\ [][\A r \in JobRefs :
          Job(r).pc # "done" /\ jobs'[r[1]][r[2]].pc = "done" =>
            /\ jobs'[r[1]][r[2]].res = NoRes
            /\ \A k \in Keys :
                 \A x \in SeqToSet(Job(r).res[k]) :
                   \/ x \in SeqToSet(pool_ready'[k])
                   \/ \E q \in JobRefs :
                        /\ q # r
                        /\ Job(q).pc = "waiting"
                        /\ x \in SeqToSet(jobs'[q[1]][q[2]].res[k])]_vars
  /\ [](/\ \A r \in JobRefs : Job(r).pc = "done" => Job(r).res = NoRes
        /\ \A k \in Keys :
             SumHeld(k, JobRefs) + Len(pool_ready[k]) = Population(k))

\* Three jobs that each held the worktree have finished, one in Completed,
\* one in Canceled, one in Error because its child could not be
\* interrupted, and the worktree is on the ready list.
C29_Witness ==
  /\ \E a \in JobRefs, b \in JobRefs, c \in JobRefs :
       /\ \A r \in {a, b, c} : Job(r).pc = "done" /\ Job(r).cwd \in Worktrees
       /\ LastStatus(a).kind = "Completed"
       /\ LastStatus(b).kind = "Canceled"
       /\ LastStatus(c) = Error("couldn't interrupt child job", 0)
  /\ Len(pool_ready["Worktree"]) = Population("Worktree")

\* The jobs that hold resources.
Holders == { r \in JobRefs : Job(r).res # NoRes }

\* C30: a job holds every instance of its request or none; a job that has
\* not been granted its request, waiting or not, holds none; and while
\* requests wait, the request at the head of the queue lacks instances that
\* are held by jobs that do not themselves wait for the pool.
C30_AllOrNothing ==
  /\ \A r \in JobRefs :
       /\ \/ Job(r).res = NoRes
          \/ \A k \in Keys : Len(Job(r).res[k]) = JobTest(r[1]).needs_resources[k]
       /\ Job(r).pc \in {"spawned", "waiting", "done"} => Job(r).res = NoRes
  /\ pool_queue # <<>> =>
       /\ ~CanGrant(pool_ready, Head(pool_queue).need)
       /\ \E k \in Keys :
            /\ Len(pool_ready[k]) < Head(pool_queue).need[k]
            /\ SumHeld(k, Holders) + Len(pool_ready[k]) >= Head(pool_queue).need[k]
       /\ \A r \in Holders : Job(r).pc \in {"granted", "started", "running", "draining"}

\* Two jobs wait with nothing in their hands although a worktree and a
\* token are ready, because their requests need two tokens; the job that
\* holds the other two tokens is not waiting for anything.
C30_Witness ==
  \E r \in JobRefs, q1 \in JobRefs, q2 \in JobRefs :
    /\ q1 # q2
    /\ Job(q1).pc = "waiting" /\ Job(q1).res = NoRes
    /\ Job(q2).pc = "waiting" /\ Job(q2).res = NoRes
    /\ JobTest(q1[1]).needs_resources["tok"] = 2
    /\ pool_ready["Worktree"] # <<>>
    /\ Len(pool_ready["tok"]) = 1
    /\ Holders = {r}
    /\ Len(Job(r).res["tok"]) = 2 /\ Len(Job(r).res["Worktree"]) = 1

\* ------------------------------------------------------------------ C31
\* The identities of the configurations of SpecSizes.
SizeIds == Commits \X {"t_origin", "t_commit"}

\* The job's request is in the wait queue and the job was not cancelled.
Pending(id, g) ==
  /\ g \in 1..Len(jobs[id])
  /\ jobs[id][g].pc = "waiting"
  /\ ~jobs[id][g].ct

\* The job that holds the identity's entry of the in-flight map (the one
\* job of the identity whose token is not cancelled) has its request in the
\* wait queue.
PendingId(id) == job_cts[id] # 0 /\ Pending(id, job_cts[id])

\* The pool has granted that job's request, or the job was cancelled.
GrantedOrCancelled(id) ==
  job_cts[id] = 0 \/ jobs[id][job_cts[id]].pc = "granted"

\* C31: no pending request starves.  When every holder gives its resources
\* back (tasks are polled, timers fire, children exit) and no request asks
\* for more than the population of a key, a pending request is granted
\* unless it is cancelled first, whatever the sizes of the requests queued
\* with it and also when requests ahead of it are cancelled while waiting.
C31_NoStarvation ==
  \A id \in SizeIds : PendingId(id) ~> GrantedOrCancelled(id)

\* A small request that is pending behind a large request that was
\* cancelled while waiting at the head of the queue, while a token it could
\* use is ready.
C31_Witness ==
  /\ Len(pool_queue) >= 2
  /\ LET h == pool_queue[1]
         n == pool_queue[2]
     IN /\ jobs[h.id][h.gen].ct /\ jobs[h.id][h.gen].pc = "waiting"
        /\ Pending(n.id, n.gen)
        /\ h.need["tok"] > n.need["tok"]
        /\ CanGrant(pool_ready, n.need)
        /\ \A k \in Keys : n.need[k] <= Len(PoolConfigs[cfg][k])

\* ------------------------------------------------------------------ C32
\* The task is inside JobCounter::zero.
InZero(u) == waits[u].pc \in {"checked", "subscribed", "waiting"}

\* A call of zero() returns at once exactly when it finds the counter at
\* zero, and a call returns only in a step in which it sees the counter at
\* zero.
ZeroReturnsOnZero ==
  \A u \in Waiters :
    /\ waits[u].pc = "idle" /\ waits'[u].pc # "idle"
         => (waits'[u].pc = "returned" <=> job_counter = 0)
    /\ waits[u].pc # "returned" /\ waits'[u].pc = "returned"
         => job_counter = 0 /\ job_counter' = 0

\* C32: JobCounter::zero returns at once when the counter is zero on entry;
\* entered with a counter that is not zero, it returns once the counter has
\* reached zero and stays there, also when the counter reaches zero between
\* the first look and the subscription; and it never returns while the
\* counter has not been zero since the entry.
C32_AwaitZero ==
  /\ [][ZeroReturnsOnZero]_vars
  /\ \A u \in Waiters :
       [](InZero(u) /\ [](job_counter = 0) => <>(waits[u].pc = "returned"))

\* One call has returned after it had blocked on a counter that was not
\* zero, another has returned without blocking although it had found the
\* counter above zero on entry.
C32_Witness ==
  \E u, v \in Waiters :
    /\ waits[u].pc = "returned" /\ waits[u].entry > 0 /\ waits[u].slept
    /\ waits[v].pc = "returned" /\ waits[v].entry > 0 /\ ~waits[v].slept

\* ------------------------------------------------------------------ C33
\* The requests of the wait queue, as jobs.
Queued(queue) == { << queue[i].id, queue[i].gen >> : i \in 1..Len(queue) }

\* The requests that are in the queue ahead of job r; a job that has not
\* asked yet comes after all of them.
Ahead(r) ==
  IF r \in Queued(pool_queue)
  THEN LET j == CHOOSE j \in 1..Len(pool_queue) :
                  pool_queue[j].id = r[1] /\ pool_queue[j].gen = r[2]
       IN Queued(SubSeq(pool_queue, 1, j - 1))
  ELSE Queued(pool_queue)

\* The step grants the request of job r.
GrantedNow(r) ==
  /\ r[2] <= Len(jobs[r[1]])
  /\ jobs[r[1]][r[2]].pc \in {"spawned", "waiting"}
  /\ jobs'[r[1]][r[2]].pc = "granted"

\* A request is granted only in a step after which no request that was
\* ahead of it is still in the queue.
GrantsInOrder ==
  \A r \in Ids \X (1..MaxJobs) :
    GrantedNow(r) => Ahead(r) \cap Queued(pool_queue') = {}

\* The request at the head of the queue lacks a ready instance of some key.
HeadBlocked ==
  pool_queue # <<>> => ~CanGrant(pool_ready, Head(pool_queue).need)

\* C33: the pool grants in strict insertion order.  The head of the queue
\* waits exactly as long as some key lacks ready instances, and a request
\* is never granted while a request queued ahead of it stays pending, even
\* when the later one could be satisfied.
C33_StrictFifo == []HeadBlocked /\ [][GrantsInOrder]_vars

\* A request that could be satisfied waits behind a pending, uncancelled
\* request that cannot.
C33_Witness ==
  /\ Len(pool_queue) >= 2
  /\ Pending(pool_queue[1].id, pool_queue[1].gen)
  /\ Pending(pool_queue[2].id, pool_queue[2].gen)
  /\ CanGrant(pool_ready, pool_queue[2].need)

\* ------------------------------------------------------------------ C34
\* The supervisor has sent SIGKILL to the job's child, which is not dead yet.
KilledChildAlive(r) ==
  SIGKILL \in SeqToSet(Job(r).sigs) /\ Job(r).child = "alive"

\* C34 as claimed: while the child of a job is alive after the SIGKILL that
\* follows the grace period, the job's task has not finished (it has sent
\* no Cancelled, holds its resources and its counter token), and no other
\* job holds the worktree the child runs in.
C34_AwaitsKilledChild ==
  \A r \in JobRefs :
    KilledChildAlive(r) =>
      /\ Job(r).pc # "done"
      /\ "Canceled" \notin SeqToSet(JobKinds(r[1], r[2]))
      /\ \A q \in JobRefs \ {r} :
           Job(r).cwd \notin SeqToSet(Job(q).res["Worktree"])

\* ------------------------------------------------------------------ C35
\* The identities the step spawns a job for.
SpawnedNow == { id \in Ids : Len(jobs'[id]) > Len(jobs[id]) }

\* A set_revisions step leaves every job it spawns announced by Enqueued,
\* entered in the in-flight map and counted by the job counter.
SpawnIsComplete ==
  /\ \A id \in SpawnedNow :
       /\ Len(jobs'[id]) = Len(jobs[id]) + 1
       /\ job_cts'[id] = Len(jobs'[id])
       /\ notifs'[id] = Append(notifs[id], Notification(id, job_cts'[id], Enqueued))
       /\ ~jobs'[id][job_cts'[id]].ct
  /\ job_counter' = job_counter + Cardinality(SpawnedNow)

\* C35: when set_revisions returns, every job it has spawned has its
\* Enqueued notification sent, its token in the in-flight map and the job
\* counter incremented for it; so a settled() called after it returns only
\* when all these jobs have finished.
C35_SpawnedBeforeReturn ==
  [][/\ calls' # calls => SpawnIsComplete
     /\ settledDone' /\ ~settledDone =>
          \A id \in Ids : \A g \in 1..Len(jobs[id]) : jobs[id][g].pc = "done"]_vars

\* settled() had to wait and has returned after the jobs of the latest
\* set_revisions call, which are still in the in-flight map, have finished.
C35_Witness ==
  /\ settledDone
  /\ lastRevs # {}
  /\ \E id \in Desired(lastRevs), other \in Desired(lastRevs) :
       /\ id # other
       /\ job_cts[id] # 0 /\ jobs[id][job_cts[id]].pc = "done"
       /\ job_cts[other] # 0 /\ jobs[other][job_cts[other]].pc = "done"

\* ------------------------------------------------------------------ C36
\* C36: a set_revisions call that fails to build a test case (the tree of a
\* commit cannot be resolved for a by-tree test) leaves the manager as it
\* was: no job is cancelled, the in-flight map keeps its entries and gets
\* no new one, no job is spawned and nothing is notified.
C36_FailedBuildChangesNothing ==
  [][caller' = "failed" /\ caller # "failed" =>
       UNCHANGED << job_cts, jobs, job_counter, pool_ready, pool_queue, db,
                    notifs >>]_vars

\* The failed call named a commit that has no job and left out the commit
\* of a job in flight: the job in flight is still running, not cancelled
\* and in the map, and the commit named has neither job nor notification.
C36_Witness ==
  /\ caller = "failed"
  /\ \E id \in Ids \ Desired(lastRevs), new \in Desired(lastRevs) :
       /\ job_cts[id] # 0
       /\ jobs[id][job_cts[id]].pc = "running"
       /\ ~jobs[id][job_cts[id]].ct
       /\ job_cts[new] = 0 /\ jobs[new] = <<>> /\ notifs[new] = <<>>

\* ------------------------------------------------------------------ C37
\* The step is the last one of job r's task.
FinishesNow(r) == Job(r).pc # "done" /\ jobs'[r[1]][r[2]].pc = "done"

\* The step sends a notification of the given kind for job r.
EmitsNow(r, kind) ==
  /\ Len(notifs'[r[1]]) = Len(notifs[r[1]]) + 1
  /\ notifs'[r[1]][Len(notifs'[r[1]])].gen = r[2]
  /\ notifs'[r[1]][Len(notifs'[r[1]])].status.kind = kind

\* C37 as claimed: a job whose token has been cancelled sends no Completed
\* and records no result afterwards.
C37_CancelledNeverCompletes ==
  [][\A r \in JobRefs :
       Job(r).ct /\ FinishesNow(r) => ~EmitsNow(r, "Completed") /\ db' = db]_vars

\* C37 amended: a job whose token has been cancelled sends Completed and
\* records the result exactly when its child has exited by itself before
\* the supervisor has seen the cancellation (no signal was sent); once the
\* supervisor has seen it, the job ends in Cancelled or Error and records
\* nothing.
C37_CompletesOnlyUnobserved ==
  [][\A r \in JobRefs :
       Job(r).ct /\ FinishesNow(r) =>
         IF Job(r).pc = "running" /\ Job(r).child = "exited"
         THEN /\ Job(r).sigs = <<>>
              /\ EmitsNow(r, "Completed")
              /\ db' = set_result(db, r[1][1], JobTest(r[1]), Job(r).code)
         ELSE /\ ~EmitsNow(r, "Completed")
              /\ db' = db
              /\ Job(r).pc \notin {"spawned", "waiting", "granted"}
                   => EmitsNow(r, "Canceled") \/ EmitsNow(r, "Error")]_vars

\* A job sent Completed and recorded its result after its token had been
\* cancelled: the identity had been removed and added again (Enqueued of
\* the second job) before the first job, whose child had exited, sent
\* Completed.
C37_Witness ==
  \E id \in Ids :
    \E i \in 1..Len(notifs[id]), j \in 1..Len(notifs[id]) :
      /\ i < j
      /\ notifs[id][i].gen = 2 /\ notifs[id][i].status.kind = "Enqueued"
      /\ notifs[id][j].gen = 1 /\ notifs[id][j].status.kind = "Completed"
      /\ jobs[id][1].ct /\ jobs[id][1].sigs = <<>>
      /\ db[DbKey(storage_hash(id[1], JobTest(id)), JobTest(id))] = jobs[id][1].code

\* ------------------------------------------------------------------ C38
\* The step is one of job r's task or of its child.
Moves(r) == jobs'[r[1]][r[2]] # Job(r)

\* What a job whose token is cancelled does, by the point its task is at.
\* Waiting for resources: the task ends at its next step, without a
\* notification.  In the checkout: nothing looks at the token; the checkout
\* is completed and the child spawned.  Waiting for the child, which is
\* alive: the task sends SIGINT.  In the grace period: the task ends in
\* Cancelled, after SIGKILL if the child has not ended.
CancelledJobStep(r) ==
  CASE Job(r).pc \in {"spawned", "waiting", "granted"} ->
         Moves(r) /\ jobs'[r[1]][r[2]].pc # "granted" =>
           FinishesNow(r) /\ notifs' = notifs
    [] Job(r).pc = "started" ->
         Moves(r) =>
           /\ jobs'[r[1]][r[2]].pc = "running"
           /\ jobs'[r[1]][r[2]].co = r[1][1]
           /\ jobs'[r[1]][r[2]].child = "alive"
           /\ jobs'[r[1]][r[2]].sigs = <<>>
           /\ notifs' = notifs
    [] Job(r).pc = "running" /\ Job(r).child = "alive" ->
         jobs'[r[1]][r[2]].pc # "running" =>
           /\ jobs'[r[1]][r[2]].pc = "draining"
           /\ jobs'[r[1]][r[2]].sigs = << SIGINT >>
           /\ notifs' = notifs
    [] Job(r).pc = "draining" ->
         jobs'[r[1]][r[2]].pc # "draining" =>
           /\ FinishesNow(r)
           /\ EmitsNow(r, "Canceled")
           /\ jobs'[r[1]][r[2]].sigs \in { << SIGINT >>, << SIGINT, SIGKILL >> }
    [] OTHER -> TRUE

Debounced ==
  /\ watch.updates <= watch.timers
  /\ watch.timers <= watch.recvd
  /\ watch.recvd <= watch.events
  /\ watch.timers - watch.updates = IF watch.timer = "terminated" THEN 0 ELSE 1
  /\ watch.timers = 0 <=> watch.armedBy = 0
  /\ watch.updates > 0 => watch.seen >= 1

\* An event does not touch a timer that is pending, and starts one when
\* none is; a list is yielded only when a timer expires.
TimerLeftAlone ==
  /\ watch.timer # "terminated" /\ watch'.timer # "terminated"
       => watch'.armedBy = watch.armedBy /\ watch'.timers = watch.timers
  /\ watch.timer = "terminated" /\ watch'.recvd # watch.recvd
       => watch'.timer = "pending" /\ watch'.armedBy = watch'.recvd
  /\ watch'.updates # watch.updates
       => /\ watch'.updates = watch.updates + 1
          /\ watch.timer = "elapsed" /\ watch'.timer = "terminated"
          /\ watch'.seen = watch.events /\ watch'.seen >= watch.armedBy

RECURSIVE RunLen(_)
RunLen(sb) == IF sb = <<>> \/ Head(sb) = NL THEN 0 ELSE 1 + RunLen(Tail(sb))

\* The maximal non-empty runs of bytes other than the newline, in order.
RECURSIVE MaximalRuns(_)
MaximalRuns(sb) ==
  IF sb = <<>> THEN <<>>
  ELSE IF Head(sb) = NL THEN MaximalRuns(Tail(sb))
  ELSE << SubSeq(sb, 1, RunLen(sb)) >>
         \o MaximalRuns(SubSeq(sb, RunLen(sb) + 1, Len(sb)))

\* C40 as claimed: for every byte string, the empty one and those made of
\* newlines included, split_lines returns, and what it returns are the
\* maximal non-empty runs of bytes other than the newline, in order.
C40_SplitsEveryString ==
  text.pc = "split" => text.ok /\ text.ret = MaximalRuns(text.sb)

\* The same for the byte strings that are not empty.
SplitsNonEmptyStrings ==
  text.pc = "split" /\ text.sb # <<>> => text.ok /\ text.ret = MaximalRuns(text.sb)
====
